---- MODULE Spec2Model ----
(***************************************************************************)
(* Omni-buffer / multi-buffer search: the search -> excerpt -> aggregate   *)
(* document -> change tracker -> apply pipeline, modelled from the         *)
(* TypeScript sources.                                                     *)
(*                                                                         *)
(* Text is a sequence of one-character strings.  Line and column numbers   *)
(* are 0-based as in the source; a document is a sequence of lines, line i *)
(* of the source being element i + 1.                                      *)
(***************************************************************************)
EXTENDS Integers, Sequences, FiniteSets, TLC

VARIABLES
  buffer,          \* [uri -> Seq(text)]: live text of every source document
  disk,            \* [uri -> Seq(text)]: text last saved for every document
  uris,            \* the files of the workspace, in enumeration order
  source,          \* the text of every file when the command started
  options,         \* SearchOptions / ReplaceOptions of the running command
  heap,            \* excerpt id -> excerpt object (objects are shared by reference)
  nextId,          \* Excerpt.idCounter
  results,         \* searchWorkspace result: Seq of [uri, excerpts: Seq(id)]
  content,         \* lines of the aggregate document as shown in the editor
  mapping,         \* MultiBufferMapping built by the formatter
  validation,      \* ValidationResult of validateMultiBufferMapping
  originalContent, \* ChangeTracker.originalContent: aggregate line -> text
  changes,         \* computeChanges result: Seq of FileChange, Map order
  edits,           \* number of user edits made to the aggregate document
  pc,              \* position of the search / replace / apply command
  message,         \* last message shown to the user
  applyPc,         \* position of ChangeTracker.applyChanges
  applyIdx,        \* index of the file applyChanges works on
  edit,            \* the vscode.WorkspaceEdit collected by applyChanges
  savedFiles,      \* applyChanges' savedFiles set
  error,           \* the Error applyChanges threw, or NoError
  cancelled,       \* the progress token's cancellation state
  findTextInFiles, \* whether the host offers vscode.workspace.findTextInFiles
  unreadable,      \* the files vscode.workspace.openTextDocument fails to open
  token,           \* isCancellationRequested of the search progress token
  docUri,          \* the aggregate document of the running command (0: none)
  documents,       \* provider.documents: aggregate uri -> [content, mapping]
  changeTrackers,  \* provider.changeTrackers: aggregate uri -> tracker baseline
  openDocs,        \* the aggregate documents open in the host
  useIncremental,  \* whether the search service is an IncrementalSearchService
  searchCache,     \* IncrementalSearchService.searchCache, or NoCache
  pendingUpdates,  \* IncrementalSearchService.pendingUpdates, insertion order
  incremental,     \* the last IncrementalSearchResult
  scan,            \* findMatchesInDocument run on its own: position and locals
  reported,        \* createExcerptsForFile run on its own: the host's match ranges
  inflight,        \* the searchWorkspaceIncremental call that is suspended, or NoCall
  fileWatcher,     \* whether setupFileWatchers has registered the watchers
  invocations      \* the number of times the command was invoked

vars == <<buffer, disk, uris, source, options, heap, nextId, results, content, mapping,
          validation, originalContent, changes, edits, pc, message, applyPc,
          applyIdx, edit, savedFiles, error, cancelled, findTextInFiles, unreadable,
          token, docUri, documents, changeTrackers, openDocs, useIncremental,
          searchCache, pendingUpdates, incremental, scan, reported,
          inflight, fileWatcher, invocations>>

(***************************************************************************)
(* Bounds of the model.                                                    *)
(***************************************************************************)
NumLines == 11      \* line count of the file in the scenarios of InitWide
MaxMatches == 2     \* at most this many matching lines in a file
MaxContext == 2     \* contextBefore, contextAfter range over 0..MaxContext
MaxEdits == 1       \* user edits to the excerpts of one file per run
SmallLines == 3     \* line count of the two files in the scenarios of Init
MaxSearches == 2    \* commands run one after another in the scenarios of InitIncremental

(***************************************************************************)
(* Text helpers (JavaScript String semantics).                             *)
(***************************************************************************)
Min(a, b) == IF a < b THEN a ELSE b
Max(a, b) == IF a > b THEN a ELSE b

SetMin(S) == CHOOSE x \in S : \A y \in S : x <= y

IsWhitespace(c) == c \in {" ", "\t"}

\* String.prototype.toLowerCase, per character
LowerChar(c) ==
  CASE c = "F" -> "f"
    [] c = "O" -> "o"
    [] c = "B" -> "b"
    [] c = "A" -> "a"
    [] c = "R" -> "r"
    [] OTHER -> c

\* U+0130 (capital I with dot above) and U+0307 (combining dot above), each
\* one UTF-16 code unit
CapitalIDot == "U+0130"
CombiningDot == "U+0307"

\* s.toLowerCase(): code unit by code unit, but U+0130 becomes the two code
\* units 'i', U+0307, so the result can be longer than s
RECURSIVE ToLowerCase(_)
ToLowerCase(s) ==
  IF Len(s) = 0 THEN <<>>
  ELSE (IF Head(s) = CapitalIDot THEN <<"i", CombiningDot>> ELSE <<LowerChar(Head(s))>>)
         \o ToLowerCase(Tail(s))

\* s.substring(from), from a 0-based index
Substring(s, from) == IF from >= Len(s) THEN <<>> ELSE SubSeq(s, from + 1, Len(s))

\* s.substring(from, to)
Substring2(s, from, to) ==
  IF from >= Min(to, Len(s)) THEN <<>> ELSE SubSeq(s, from + 1, Min(to, Len(s)))

\* s.trim()
Trim(s) ==
  LET keep == {i \in 1..Len(s) : ~IsWhitespace(s[i])}
  IN IF keep = {} THEN <<>>
     ELSE SubSeq(s, SetMin(keep), CHOOSE i \in keep : \A j \in keep : j <= i)

\* text.match(/^\s*/)[0]
LeadingWhitespace(s) ==
  LET keep == {i \in 1..Len(s) : ~IsWhitespace(s[i])}
  IN IF keep = {} THEN s ELSE SubSeq(s, 1, SetMin(keep) - 1)

\* haystack.indexOf(needle, from): 0-based index or -1
IndexOf(haystack, needle, from) ==
  LET hits == {i \in from..(Len(haystack) - Len(needle)) :
                 \A k \in 1..Len(needle) : haystack[i + k] = needle[k]}
  IN IF hits # {} THEN SetMin(hits)
     ELSE IF Len(needle) = 0 THEN Len(haystack)
     ELSE -1

Digit(d) == CASE d = 0 -> "0" [] d = 1 -> "1" [] d = 2 -> "2" [] d = 3 -> "3"
              [] d = 4 -> "4" [] d = 5 -> "5" [] d = 6 -> "6" [] d = 7 -> "7"
              [] d = 8 -> "8" [] d = 9 -> "9"

\* Number.prototype.toString for a non-negative integer
RECURSIVE NumToString(_)
NumToString(n) == IF n < 10 THEN <<Digit(n)>> ELSE NumToString(n \div 10) \o <<Digit(n % 10)>>

\* s.padStart(width, ' ')
PadStart(s, width) == [i \in 1..Max(0, width - Len(s)) |-> " "] \o s

(***************************************************************************)
(* Values of the vscode API.                                               *)
(***************************************************************************)
Position(l, c) == [line |-> l, character |-> c]

\* position.isAfter(other)
IsAfter(p, q) == p.line > q.line \/ (p.line = q.line /\ p.character > q.character)

\* new vscode.Range(start, end): the constructor orders its two positions
RangeOf(p, q) == IF IsAfter(p, q) THEN [start |-> q, end |-> p] ELSE [start |-> p, end |-> q]

Range(sl, sc, el, ec) == RangeOf(Position(sl, sc), Position(el, ec))

\* document.lineAt(n).text
LineAt(doc, n) == doc[n + 1]

\* document.lineCount
LineCount(doc) == Len(doc)

\* document.getText(range): the lines of the range joined by newlines
RECURSIVE GetTextFrom(_, _, _)
GetTextFrom(doc, range, l) ==
  LET text == LineAt(doc, l)
      from == IF l = range.start.line THEN range.start.character ELSE 0
      to == IF l = range.end.line THEN Min(range.end.character, Len(text)) ELSE Len(text)
      part == Substring2(text, from, to)
  IN IF l = range.end.line THEN part
     ELSE part \o <<"\n">> \o GetTextFrom(doc, range, l + 1)

\* document.validatePosition: a position past the end is moved to the end
ValidatePosition(doc, p) ==
  IF p.line >= LineCount(doc)
    THEN Position(LineCount(doc) - 1, Len(LineAt(doc, LineCount(doc) - 1)))
    ELSE Position(p.line, Min(p.character, Len(LineAt(doc, p.line))))

GetText(doc, range) ==
  LET valid == [start |-> ValidatePosition(doc, range.start),
                end |-> ValidatePosition(doc, range.end)]
  IN GetTextFrom(doc, valid, valid.start.line)

\* uri.toString() of a file uri
UriToString(uri) == <<"f", "i", "l", "e", ":", "/", "/">> \o uri

\* uri.fsPath of a file uri
FsPath(uri) == uri

\* vscode.workspace.asRelativePath(uri), the workspace folder being "/"
AsRelativePath(uri) == Substring(uri, 1)

(***************************************************************************)
(* SearchService: the matcher.                                             *)
(***************************************************************************)
MAX_SAFE_INTEGER == 999999

\* /[A-Za-z0-9_]/.test(ch)
wordChar(ch) ==
  ch \in {"a", "b", "c", "d", "e", "f", "g", "h", "i", "j", "k", "l", "m", "n", "o", "p",
          "q", "r", "s", "t", "u", "v", "w", "x", "y", "z",
          "A", "B", "C", "D", "E", "F", "G", "H", "I", "J", "K", "L", "M", "N", "O", "P",
          "Q", "R", "S", "T", "U", "V", "W", "X", "Y", "Z",
          "0", "1", "2", "3", "4", "5", "6", "7", "8", "9", "_"}

isWordBoundary(text, start, length) ==
  LET b == start = 0 \/ ~wordChar(text[start])
      a == start + length >= Len(text) \/ ~wordChar(text[start + length + 1])
  IN b /\ a

\* The literal branch of the scan of one line: ranges is the list collected
\* so far over the whole document.
RECURSIVE ScanLiteral(_, _, _, _, _, _, _, _)
ScanLiteral(text, haystack, needle, wholeWord, lineNum, idx, ranges, remaining) ==
  LET at == IndexOf(haystack, needle, idx)
  IN IF at = -1 \/ Len(ranges) >= remaining THEN ranges
     ELSE ScanLiteral(text, haystack, needle, wholeWord, lineNum,
                      at + Max(1, Len(needle)),
                      IF ~wholeWord \/ isWordBoundary(text, at, Len(needle))
                        THEN Append(ranges, Range(lineNum, at, lineNum, at + Len(needle)))
                        ELSE ranges,
                      remaining)

(***************************************************************************)
(* Regular expressions.  The patterns of the model are sequences of        *)
(* literal characters and of '.', which matches any character; '(' opens   *)
(* a group and ')' closes one, and a pattern whose groups are not balanced *)
(* does not compile.  The model uses no pattern with a balanced group.     *)
(***************************************************************************)
Count(s, c) == Cardinality({i \in 1..Len(s) : s[i] = c})

\* new RegExp(pattern, flags) does not throw a SyntaxError
RegExpValid(pattern) == Count(pattern, "(") = Count(pattern, ")")

\* The pattern matches text at the 0-based index at
RegExpMatchesAt(text, pattern, isCaseSensitive, at) ==
  /\ at + Len(pattern) <= Len(text)
  /\ \A k \in 1..Len(pattern) :
       \/ pattern[k] = "."
       \/ IF isCaseSensitive THEN text[at + k] = pattern[k]
                              ELSE LowerChar(text[at + k]) = LowerChar(pattern[k])

\* regex.exec(text) from lastIndex: the index of the match, or -1
RegExpExec(text, pattern, isCaseSensitive, lastIndex) ==
  LET hits == {i \in lastIndex..Len(text) : RegExpMatchesAt(text, pattern, isCaseSensitive, i)}
  IN IF hits = {} THEN -1 ELSE SetMin(hits)

\* The regex branch of the scan of one line
RECURSIVE ScanRegex(_, _, _, _, _, _, _, _)
ScanRegex(text, pattern, isCaseSensitive, wholeWord, lineNum, lastIndex, ranges, remaining) ==
  LET index == IF lastIndex > Len(text) THEN -1
               ELSE RegExpExec(text, pattern, isCaseSensitive, lastIndex)
      end == index + Len(pattern)
  IN IF index = -1 \/ Len(ranges) >= remaining THEN ranges
     ELSE ScanRegex(text, pattern, isCaseSensitive, wholeWord, lineNum,
                    IF index = end THEN end + 1 ELSE end,
                    IF ~wholeWord \/ isWordBoundary(text, index, Len(pattern))
                      THEN Append(ranges, Range(lineNum, index, lineNum, end))
                      ELSE ranges,
                    remaining)

RECURSIVE ScanLines(_, _, _, _, _)
ScanLines(document, opts, lineNum, ranges, remaining) ==
  IF lineNum >= LineCount(document) \/ Len(ranges) >= remaining THEN ranges
  ELSE LET text == LineAt(document, lineNum)
           haystack == IF opts.isCaseSensitive THEN text ELSE ToLowerCase(text)
           needle == IF opts.isCaseSensitive THEN opts.query ELSE ToLowerCase(opts.query)
       IN ScanLines(document, opts, lineNum + 1,
                    IF opts.isRegex
                      THEN ScanRegex(text, opts.query, opts.isCaseSensitive,
                                     opts.matchWholeWord, lineNum, 0, ranges, remaining)
                      ELSE ScanLiteral(text, haystack, needle, opts.matchWholeWord,
                                       lineNum, 0, ranges, remaining),
                    remaining)

\* findMatchesInDocument throws: the pattern of a regex search does not compile
findMatchesThrows(opts) == opts.isRegex /\ ~RegExpValid(opts.query)

\* findMatchesInDocument, for options with which it does not throw
findMatchesInDocument(document, opts, remaining) ==
  ScanLines(document, opts, 0, <<>>, remaining)

(***************************************************************************)
(* SearchService: excerpts of one file.                                    *)
(***************************************************************************)
expandRange(range, contextBefore, contextAfter, document) ==
  LET startLine == Max(0, range.start.line - contextBefore)
      endLine == Min(LineCount(document) - 1, range.end.line + contextAfter)
  IN Range(startLine, 0, endLine, Len(LineAt(document, endLine)))

RECURSIVE MergeFrom(_, _, _, _, _, _, _)
MergeFrom(ranges, i, current, merged, contextBefore, contextAfter, document) ==
  IF i > Len(ranges) THEN Append(merged, current)
  ELSE LET expanded == expandRange(ranges[i], contextBefore, contextAfter, document)
       IN IF current.end.line >= expanded.start.line - 1
            THEN MergeFrom(ranges, i + 1, RangeOf(current.start, expanded.end),
                           merged, contextBefore, contextAfter, document)
            ELSE MergeFrom(ranges, i + 1, expanded, Append(merged, current),
                           contextBefore, contextAfter, document)

mergeOverlappingRanges(ranges, contextBefore, contextAfter, document) ==
  IF Len(ranges) = 0 THEN <<>>
  ELSE MergeFrom(ranges, 2, expandRange(ranges[1], contextBefore, contextAfter, document),
                 <<>>, contextBefore, contextAfter, document)

\* matches.sort((a, b) => a.start.line - b.start.line): a stable sort
RECURSIVE SortByStartLine(_)
SortByStartLine(ranges) ==
  IF Len(ranges) <= 1 THEN ranges
  ELSE LET least == SetMin({ranges[i].start.line : i \in 1..Len(ranges)})
           first == SetMin({i \in 1..Len(ranges) : ranges[i].start.line = least})
           rest == [i \in 1..(Len(ranges) - 1) |->
                      IF i < first THEN ranges[i] ELSE ranges[i + 1]]
       IN <<ranges[first]>> \o SortByStartLine(rest)

PLACEHOLDER_RANGE == Range(0, 0, 0, 0)

\* The Excerpt constructor: the object it builds
Excerpt(id, fileUri, sourceRange, multiBufferRange, contextBefore, contextAfter, isMatch, originalText) ==
  [id |-> id, fileUri |-> fileUri, sourceRange |-> sourceRange,
   multiBufferRange |-> multiBufferRange, contextBefore |-> contextBefore,
   contextAfter |-> contextAfter, isMatch |-> isMatch, originalText |-> originalText]

\* The Excerpt constructor: TRUE iff it does not throw
ExcerptValid(e, document) ==
  /\ Len(e.originalText) > 0
  /\ ~(e.sourceRange.start.line < 0 \/ e.sourceRange.end.line >= LineCount(document))
  /\ e.contextBefore >= 0
  /\ e.contextAfter >= 0

\* createExcerptsForFile: the excerpts built for one file, ids from firstId on
createExcerptsForFile(uri, matches, contextBefore, contextAfter, document, firstId) ==
  LET primaryRanges == SortByStartLine(matches)
      mergedRanges == mergeOverlappingRanges(primaryRanges, contextBefore,
                                             contextAfter, document)
  IN [k \in 1..Len(mergedRanges) |->
        Excerpt(firstId + k - 1, uri, mergedRanges[k], PLACEHOLDER_RANGE,
                contextBefore, contextAfter, TRUE,
                GetText(document, mergedRanges[k]))]

(***************************************************************************)
(* ResultFormatter.                                                        *)
(***************************************************************************)
FILE_HEADER_PREFIX == <<"=", "=", "=", " ">>
MATCH_LINE_PREFIX == <<" ", " ">>
CONTEXT_LINE_PREFIX == <<" ", " ">>
LINE_NUMBER_WIDTH == 6

formatLineNumber(lineNum) == PadStart(NumToString(lineNum), LINE_NUMBER_WIDTH) \o <<" ">>

\* Replace every occurrence of needle found in haystack (the text, or its
\* case-folded form) from index idx on, left to right, by replaceStr.
RECURSIVE ReplaceFrom(_, _, _, _, _)
ReplaceFrom(text, haystack, needle, replaceStr, idx) ==
  LET at == IndexOf(haystack, needle, idx)
  IN IF at = -1 THEN Substring(text, idx)
     ELSE Substring2(text, idx, at) \o replaceStr
          \o ReplaceFrom(text, haystack, needle, replaceStr, at + Len(needle))

\* text.split('').join(replaceStr)
RECURSIVE JoinChars(_, _)
JoinChars(text, replaceStr) ==
  IF Len(text) <= 1 THEN text
  ELSE <<Head(text)>> \o replaceStr \o JoinChars(Tail(text), replaceStr)

\* The expansion of the replacement string by String.prototype.replace for
\* one match of a pattern without capture groups: "$$" is "$", "$&" the
\* matched text, "$'" the text after the match; every other character stands
\* for itself (the texts of the model hold no grave accent, the one other
\* character that forms a pattern with "$").
RECURSIVE GetSubstitution(_, _, _, _)
GetSubstitution(replaceStr, text, position, matched) ==
  IF Len(replaceStr) = 0 THEN <<>>
  ELSE IF Len(replaceStr) >= 2 /\ replaceStr[1] = "$" /\ replaceStr[2] \in {"$", "&", "'"}
    THEN (CASE replaceStr[2] = "$" -> <<"$">>
            [] replaceStr[2] = "&" -> matched
            [] OTHER -> Substring(text, position + Len(matched)))
         \o GetSubstitution(SubSeq(replaceStr, 3, Len(replaceStr)), text, position, matched)
  ELSE <<replaceStr[1]>> \o GetSubstitution(Tail(replaceStr), text, position, matched)

\* text.replace(regex, replacement) with a global regex, from index idx on.
\* The regex is that of a regex search, or the escaped literal query with
\* the flags 'gi'.
RECURSIVE StringReplace(_, _, _)
StringReplace(text, searchOptions, idx) ==
  LET at == IF idx > Len(text) THEN -1
            ELSE IF searchOptions.isRegex
              THEN RegExpExec(text, searchOptions.query, searchOptions.isCaseSensitive, idx)
              ELSE IndexOf(ToLowerCase(text), ToLowerCase(searchOptions.query), idx)
      length == Len(searchOptions.query)
  IN IF at = -1 THEN Substring(text, idx)
     ELSE Substring2(text, idx, at)
          \o GetSubstitution(searchOptions.replacement, text, at,
                             Substring2(text, at, at + length))
          \o IF length = 0
               THEN Substring2(text, at, at + 1) \o StringReplace(text, searchOptions, at + 1)
               ELSE StringReplace(text, searchOptions, at + length)

\* applyReplacement, for a query that compiles
applyReplacement(text, searchOptions) ==
  LET searchStr == searchOptions.query
      replaceStr == searchOptions.replacement
  IN IF searchOptions.isRegex THEN StringReplace(text, searchOptions, 0)
     ELSE IF searchOptions.isCaseSensitive
       THEN IF Len(searchStr) = 0 THEN JoinChars(text, replaceStr)
            ELSE ReplaceFrom(text, text, searchStr, replaceStr, 0)
       ELSE StringReplace(text, searchOptions, 0)

\* The range of lines formatExcerpt emits (Excerpt.getContextRange, computed
\* inline by the formatter)
getContextRange(excerpt, document) ==
  LET startLine == Max(0, excerpt.sourceRange.start.line - excerpt.contextBefore)
      endLine == Min(LineCount(document) - 1,
                     excerpt.sourceRange.end.line + excerpt.contextAfter)
  IN Range(startLine, 0, endLine, Len(LineAt(document, endLine)))

\* One emitted line with the 0-based line number printed as it is
formatLine_ZeroBased(lineNum, prefix, formattedText) ==
  formatLineNumber(lineNum) \o prefix \o formattedText

\* One emitted line: `${formattedLineNum}${prefix}${formattedText}`, lineNum
\* being the 0-based source line
formatLine(lineNum, prefix, formattedText) ==
  formatLineNumber(lineNum + 1) \o prefix \o formattedText

formatExcerpt(excerpt, document, opts) ==
  LET contextRange == getContextRange(excerpt, document)
      count == contextRange.end.line - contextRange.start.line + 1
      isMatchLine(lineNum) ==
        /\ lineNum >= excerpt.sourceRange.start.line
        /\ lineNum <= excerpt.sourceRange.end.line
      formatted(lineNum) ==
        LET lineText == LineAt(document, lineNum)
            formattedText == IF opts.isReplace /\ isMatchLine(lineNum)
                               THEN applyReplacement(lineText, opts)
                               ELSE lineText
            prefix == IF isMatchLine(lineNum) THEN MATCH_LINE_PREFIX
                      ELSE CONTEXT_LINE_PREFIX
        IN formatLine(lineNum, prefix, formattedText)
  IN [lines |-> [k \in 1..count |-> formatted(contextRange.start.line + k - 1)],
      matchLineIndices |->
        SelectSeq([k \in 1..count |-> k - 1],
                  LAMBDA i : isMatchLine(contextRange.start.line + i))]

\* `Multi-Buffer Search: "query"` or `Multi-Buffer Replace: "query" -> "replacement"`
formatHeader(opts) ==
  IF opts.isReplace
    THEN <<"R", ":", "\"">> \o opts.query \o <<"\"", ">", "\"">> \o opts.replacement \o <<"\"">>
    ELSE <<"S", ":", "\"">> \o opts.query \o <<"\"">>

formatFileHeader(uri) == FILE_HEADER_PREFIX \o AsRelativePath(uri)

EmptyMapping == [lineToExcerpt |-> <<>>, excerpts |-> <<>>, excerptsByFile |-> <<>>]

\* The inner loop with a line counter that skips the empty line pushed after
\* every excerpt
FormatOne_SeparatorNotCounted(acc, uri, id, opts, docs) ==
  LET excerpt == acc.heap[id]
      formattedExcerpt == formatExcerpt(excerpt, docs[excerpt.fileUri], opts)
      startLine == acc.currentLine
      n == Len(formattedExcerpt.lines)
      multiBufferRange ==
        IF n > 0 THEN Range(startLine, 0, startLine + n - 1, Len(formattedExcerpt.lines[n]))
        ELSE Range(startLine, 0, startLine, 0)
      mapped == {startLine + formattedExcerpt.matchLineIndices[i] :
                   i \in 1..Len(formattedExcerpt.matchLineIndices)}
      fileKey == UriToString(uri)
      byFile == acc.mapping.excerptsByFile
      previous == IF fileKey \in DOMAIN byFile THEN byFile[fileKey] ELSE <<>>
  IN [lines |-> acc.lines \o formattedExcerpt.lines \o << <<>> >>,
      currentLine |-> acc.currentLine + n,
      heap |-> [acc.heap EXCEPT ![id].multiBufferRange = multiBufferRange],
      mapping |->
        [lineToExcerpt |-> [l \in mapped |-> id] @@ acc.mapping.lineToExcerpt,
         excerpts |-> (excerpt.id :> id) @@ acc.mapping.excerpts,
         excerptsByFile |-> (fileKey :> Append(previous, id)) @@ byFile]]

\* The inner loop with excerptsByFile keyed by uri.fsPath, the key the
\* validator looks up, instead of uri.toString()
FormatOne_KeyByFsPath(acc, uri, id, opts, docs) ==
  LET excerpt == acc.heap[id]
      formattedExcerpt == formatExcerpt(excerpt, docs[excerpt.fileUri], opts)
      startLine == acc.currentLine
      n == Len(formattedExcerpt.lines)
      multiBufferRange ==
        IF n > 0 THEN Range(startLine, 0, startLine + n - 1, Len(formattedExcerpt.lines[n]))
        ELSE Range(startLine, 0, startLine, 0)
      mapped == {startLine + formattedExcerpt.matchLineIndices[i] :
                   i \in 1..Len(formattedExcerpt.matchLineIndices)}
      fileKey == FsPath(uri)
      byFile == acc.mapping.excerptsByFile
      previous == IF fileKey \in DOMAIN byFile THEN byFile[fileKey] ELSE <<>>
  IN [lines |-> acc.lines \o formattedExcerpt.lines \o << <<>> >>,
      currentLine |-> acc.currentLine + n + 1,
      heap |-> [acc.heap EXCEPT ![id].multiBufferRange = multiBufferRange],
      mapping |->
        [lineToExcerpt |-> [l \in mapped |-> id] @@ acc.mapping.lineToExcerpt,
         excerpts |-> (excerpt.id :> id) @@ acc.mapping.excerpts,
         excerptsByFile |-> (fileKey :> Append(previous, id)) @@ byFile]]

\* One pass of the inner loop of formatSearchResults: excerpt number k of the
\* file entry, acc being [lines, currentLine, mapping, heap].
FormatOne(acc, uri, id, opts, docs) ==
  LET excerpt == acc.heap[id]
      formattedExcerpt == formatExcerpt(excerpt, docs[excerpt.fileUri], opts)
      startLine == acc.currentLine
      n == Len(formattedExcerpt.lines)
      multiBufferRange ==
        IF n > 0 THEN Range(startLine, 0, startLine + n - 1, Len(formattedExcerpt.lines[n]))
        ELSE Range(startLine, 0, startLine, 0)
      mapped == {startLine + formattedExcerpt.matchLineIndices[i] :
                   i \in 1..Len(formattedExcerpt.matchLineIndices)}
      fileKey == UriToString(uri)
      byFile == acc.mapping.excerptsByFile
      previous == IF fileKey \in DOMAIN byFile THEN byFile[fileKey] ELSE <<>>
  IN [lines |-> acc.lines \o formattedExcerpt.lines \o << <<>> >>,
      currentLine |-> acc.currentLine + n + 1,
      heap |-> [acc.heap EXCEPT ![id].multiBufferRange = multiBufferRange],
      mapping |->
        [lineToExcerpt |-> [l \in mapped |-> id] @@ acc.mapping.lineToExcerpt,
         excerpts |-> (excerpt.id :> id) @@ acc.mapping.excerpts,
         excerptsByFile |-> (fileKey :> Append(previous, id)) @@ byFile]]

RECURSIVE FormatExcerpts(_, _, _, _, _, _)
FormatExcerpts(acc, uri, ids, k, opts, docs) ==
  IF k > Len(ids) THEN acc
  ELSE FormatExcerpts(FormatOne(acc, uri, ids[k], opts, docs), uri, ids, k + 1, opts, docs)

RECURSIVE FormatFiles(_, _, _, _, _)
FormatFiles(acc, excerptsByFile, f, opts, docs) ==
  IF f > Len(excerptsByFile) THEN acc
  ELSE LET entry == excerptsByFile[f]
           withHeader == [acc EXCEPT !.lines = @ \o <<formatFileHeader(entry.uri), <<>> >>,
                                     !.currentLine = @ + 2]
       IN FormatFiles(FormatExcerpts(withHeader, entry.uri, entry.excerpts, 1, opts, docs),
                      excerptsByFile, f + 1, opts, docs)

\* formatSearchResults: [lines, mapping, heap]; lines is content.split('\n'),
\* heap the excerpt objects with the multiBufferRange the formatter assigned
formatSearchResults(excerptsByFile, opts, objects, docs) ==
  FormatFiles([lines |-> <<formatHeader(opts), <<>> >>, currentLine |-> 2,
               mapping |-> EmptyMapping, heap |-> objects],
              excerptsByFile, 1, opts, docs)

(***************************************************************************)
(* validateMultiBufferMapping: the set of errors it collects.              *)
(***************************************************************************)
validateMultiBufferMapping(m, objects) ==
  LET has(id) == id \in DOMAIN m.excerpts
      lineErrors ==
        {[error |-> "line excerpt not found in excerpts map", id |-> objects[m.lineToExcerpt[l]].id]
           : l \in {x \in DOMAIN m.lineToExcerpt : ~has(objects[m.lineToExcerpt[x]].id)}}
      listed(key) == {objects[m.excerptsByFile[key][i]].id : i \in 1..Len(m.excerptsByFile[key])}
      fileErrors ==
        {[error |-> "file excerpt not found in excerpts map", id |-> id]
           : id \in {x \in UNION {listed(key) : key \in DOMAIN m.excerptsByFile} : ~has(x)}}
      referencedIds ==
        {objects[m.lineToExcerpt[l]].id : l \in DOMAIN m.lineToExcerpt}
          \cup UNION {listed(key) : key \in DOMAIN m.excerptsByFile}
      orphanErrors ==
        {[error |-> "excerpt not referenced", id |-> id]
           : id \in {x \in DOMAIN m.excerpts : x \notin referencedIds}}
      \* fileExcerptMap: excerpt.fileUri.fsPath -> ids; looked up in excerptsByFile
      actualIds(filePath) ==
        IF filePath \in DOMAIN m.excerptsByFile THEN listed(filePath) ELSE {}
      groupErrors ==
        {[error |-> "excerpt missing from excerptsByFile", id |-> id]
           : id \in {x \in DOMAIN m.excerpts :
                       x \notin actualIds(FsPath(objects[m.excerpts[x]].fileUri))}}
      errors == lineErrors \cup fileErrors \cup orphanErrors \cup groupErrors
  IN [isValid |-> errors = {}, errors |-> errors]

(***************************************************************************)
(* ChangeTracker.                                                          *)
(***************************************************************************)
CONTENT_START_INDEX == 9

extractContent(lineText) ==
  LET contentStart == Min(CONTENT_START_INDEX, Len(lineText))
  IN Trim(Substring(lineText, contentStart))

\* A baseline that keeps the incidental whitespace of the line
initialize_Untrimmed(document, m, objects) ==
  [lineNum \in {l \in DOMAIN m.lineToExcerpt : objects[m.lineToExcerpt[l]].isMatch}
     |-> Substring(LineAt(document, lineNum), CONTENT_START_INDEX)]

\* initialize: the originalContent map
initialize(document, m, objects) ==
  [lineNum \in {l \in DOMAIN m.lineToExcerpt : objects[m.lineToExcerpt[l]].isMatch}
     |-> extractContent(LineAt(document, lineNum))]

\* Every tracked line reported, whether or not it differs from the baseline
ChangedLines_NotCompared(document, m, objects, original) ==
  {multiLine \in DOMAIN m.lineToExcerpt :
     /\ objects[m.lineToExcerpt[multiLine]].isMatch
     /\ multiLine \in DOMAIN original}

\* The aggregate lines computeChanges reports, in Map order (ascending line)
ChangedLines(document, m, objects, original) ==
  {multiLine \in DOMAIN m.lineToExcerpt :
     /\ objects[m.lineToExcerpt[multiLine]].isMatch
     /\ multiLine \in DOMAIN original
     /\ extractContent(LineAt(document, multiLine)) # original[multiLine]}

\* The source line computeChanges derives for an aggregate line
SourceLine(multiLine, excerpt) ==
  LET sourceLineOffset == multiLine - excerpt.multiBufferRange.start.line
  IN excerpt.sourceRange.start.line + sourceLineOffset

\* TRUE iff computeChanges throws: excerpt.buffer.lineAt(sourceLine) is out of range
computeChangesThrows(document, m, objects, original, docs) ==
  \E multiLine \in ChangedLines(document, m, objects, original) :
    LET excerpt == objects[m.lineToExcerpt[multiLine]]
        sourceLine == SourceLine(multiLine, excerpt)
    IN sourceLine < 0 \/ sourceLine >= LineCount(docs[excerpt.fileUri])

RECURSIVE ComputeFrom(_, _, _, _, _, _, _)
ComputeFrom(todo, changesByFile, document, m, objects, original, docs) ==
  IF todo = {} THEN changesByFile
  ELSE LET multiLine == SetMin(todo)
           excerpt == objects[m.lineToExcerpt[multiLine]]
           fileKey == UriToString(excerpt.fileUri)
           sourceLine == SourceLine(multiLine, excerpt)
           lineLength == Len(LineAt(docs[excerpt.fileUri], sourceLine))
           change == [range |-> Range(sourceLine, 0, sourceLine, lineLength),
                      newText |-> extractContent(LineAt(document, multiLine)),
                      originalText |-> original[multiLine]]
           known == {i \in 1..Len(changesByFile) : changesByFile[i].key = fileKey}
           next ==
             IF known = {}
               THEN Append(changesByFile, [key |-> fileKey, uri |-> excerpt.fileUri,
                                           changes |-> <<change>>])
               ELSE [changesByFile EXCEPT ![SetMin(known)].changes = Append(@, change)]
       IN ComputeFrom(todo \ {multiLine}, next, document, m, objects, original, docs)

\* computeChanges: the entries of the Map it returns, in insertion order
computeChanges(document, m, objects, original, docs) ==
  ComputeFrom(ChangedLines(document, m, objects, original), <<>>,
              document, m, objects, original, docs)

(***************************************************************************)
(* SearchService.searchWorkspace (the stable-API path): files in the       *)
(* enumeration order, one global budget of maxResults.                     *)
(***************************************************************************)
\* getContextValues(options)
getContextValues(opts) ==
  [contextBefore |-> opts.contextBefore, contextAfter |-> opts.contextAfter]

\* The index of the first excerpt whose construction throws, 0 when none does
FirstInvalid(excerpts, document) ==
  LET invalid == {k \in 1..Len(excerpts) : ~ExcerptValid(excerpts[k], document)}
  IN IF invalid = {} THEN 0 ELSE SetMin(invalid)

\* results.push({ uri, excerpts }): the objects enter the heap, the result
\* entry holds their ids
Push(acc, uri, excerpts) ==
  [acc EXCEPT
     !.nextId = @ + Len(excerpts),
     !.heap = [id \in {excerpts[k].id : k \in 1..Len(excerpts)} |->
                 excerpts[id - acc.nextId + 1]] @@ @,
     !.results = Append(@, [uri |-> uri,
                            excerpts |-> [k \in 1..Len(excerpts) |-> excerpts[k].id]])]

\* searchWorkspaceFallback, one file: the excerpts were asked for.  ids are
\* generated before the constructor runs, also for the excerpt whose
\* construction throws; the throw is caught and the file ignored
FallbackBuilt(acc, uri, document, excerpts) ==
  LET failed == FirstInvalid(excerpts, document)
  IN IF Len(excerpts) = 0 THEN acc
     ELSE IF failed > 0 THEN [acc EXCEPT !.nextId = @ + failed]
     ELSE Push(acc, uri, excerpts)

\* searchWorkspaceFallback, one file: the document was opened and searched
FallbackMatched(acc, uri, document, opts, ranges) ==
  IF Len(ranges) = 0 THEN acc
  ELSE FallbackBuilt([acc EXCEPT !.globalCount = @ + Len(ranges)], uri, document,
                     createExcerptsForFile(uri, ranges,
                                           getContextValues(opts).contextBefore,
                                           getContextValues(opts).contextAfter,
                                           document, acc.nextId))

\* searchWorkspaceFallback: the loop over the files found
RECURSIVE SearchFrom(_, _, _, _, _, _)
SearchFrom(files, i, acc, opts, docs, bad) ==
  LET maxResults == IF opts.maxResults.set THEN opts.maxResults.value ELSE MAX_SAFE_INTEGER
  IN IF i > Len(files) \/ acc.globalCount >= maxResults THEN acc
     ELSE IF files[i] \in bad \/ findMatchesThrows(opts)
       THEN SearchFrom(files, i + 1, acc, opts, docs, bad)   \* caught: file ignored
     ELSE SearchFrom(files, i + 1,
                     FallbackMatched(acc, files[i], docs[files[i]], opts,
                                     findMatchesInDocument(docs[files[i]], opts,
                                                           maxResults - acc.globalCount)),
                     opts, docs, bad)

\* vscode.workspace.findTextInFiles rejects: the host cannot compile the pattern
findTextInFilesRejects(opts) == opts.isRegex /\ ~RegExpValid(opts.query)

\* The matches the host reports for one file.  The host searches the text it
\* read (hostText) with the semantics of the search pattern, which are those
\* of the matcher; a regex search is never a whole-word search
\* (createSearchPattern).
HostMatches(uri, opts, hostText, remaining) ==
  findMatchesInDocument(hostText[uri],
                        [opts EXCEPT !.matchWholeWord = IF opts.isRegex THEN FALSE ELSE @],
                        remaining)

\* searchWorkspace with findTextInFiles, one file of matchesByFile: the
\* excerpts were asked for.  Nothing catches what the constructor throws
HostBuilt(acc, uri, document, excerpts) ==
  LET failed == FirstInvalid(excerpts, document)
  IN IF failed > 0
       THEN [acc EXCEPT !.nextId = @ + failed, !.threw = "construction"]
       ELSE Push(acc, uri, excerpts)

\* searchWorkspace with findTextInFiles, one file: the host reported
\* fileMatches.  Nothing catches a rejected openTextDocument
HostMatched(acc, uri, docs, bad, opts, fileMatches) ==
  IF Len(fileMatches) = 0 THEN acc
  ELSE IF uri \in bad
    THEN [acc EXCEPT !.globalCount = @ + Len(fileMatches), !.threw = "open"]
  ELSE HostBuilt([acc EXCEPT !.globalCount = @ + Len(fileMatches)], uri, docs[uri],
                 createExcerptsForFile(uri, fileMatches,
                                       getContextValues(opts).contextBefore,
                                       getContextValues(opts).contextAfter,
                                       docs[uri], acc.nextId))

\* searchWorkspace with findTextInFiles: the loop over matchesByFile
RECURSIVE HostSearchFrom(_, _, _, _, _, _, _)
HostSearchFrom(files, i, acc, opts, docs, hostText, bad) ==
  LET maxResults == IF opts.maxResults.set THEN opts.maxResults.value ELSE MAX_SAFE_INTEGER
  IN IF i > Len(files) \/ acc.threw # "none" THEN acc
     ELSE HostSearchFrom(files, i + 1,
                         HostMatched(acc, files[i], docs, bad, opts,
                                     HostMatches(files[i], opts, hostText,
                                                 maxResults - acc.globalCount)),
                         opts, docs, hostText, bad)

\* SearchService.searchWorkspace: the host search when the host offers it and
\* it does not reject, the fallback otherwise
searchWorkspace(files, objects, firstId, opts, docs, hostText, bad, host) ==
  LET start == [results |-> <<>>, heap |-> objects, nextId |-> firstId,
                globalCount |-> 0, threw |-> "none"]
  IN IF host /\ ~findTextInFilesRejects(opts)
       THEN HostSearchFrom(files, 1, start, opts, docs, hostText, bad)
       ELSE SearchFrom(files, 1, start, opts, docs, bad)

(***************************************************************************)
(* IncrementalSearchService.  A Map is a sequence of entries in insertion  *)
(* order; the keys of the cache are uri strings.                           *)
(***************************************************************************)
\* vscode.Uri.parse(uri.toString()) of a file uri
UriParse(str) == Substring(str, Len(UriToString(<<>>)))

NoCache == [set |-> FALSE, lastSearchOptions |-> <<>>, excerptsByFile |-> <<>>]

MapHas(map, key) == \E k \in 1..Len(map) : map[k].key = key

MapGet(map, key) == map[CHOOSE k \in 1..Len(map) : map[k].key = key]

\* map.set(key, value): an existing key keeps its place
MapSet(map, entry) ==
  IF MapHas(map, entry.key)
    THEN [k \in 1..Len(map) |-> IF map[k].key = entry.key THEN entry ELSE map[k]]
    ELSE Append(map, entry)

\* map.delete(key)
MapDelete(map, key) ==
  IF ~MapHas(map, key) THEN map
  ELSE LET at == CHOOSE k \in 1..Len(map) : map[k].key = key
       IN SubSeq(map, 1, at - 1) \o SubSeq(map, at + 1, Len(map))

\* computeFileHash: a digest of the excerpts' originalText fed in order;
\* the digest is taken to be collision-free
RECURSIVE computeFileHash(_, _)
computeFileHash(excerpts, objects) ==
  IF Len(excerpts) = 0 THEN <<>>
  ELSE objects[excerpts[1]].originalText \o computeFileHash(Tail(excerpts), objects)

\* updateCacheForFile on a cache that is set
updateCacheForFile(cache, uri, excerpts, objects) ==
  [cache EXCEPT !.excerptsByFile =
     MapSet(@, [key |-> UriToString(uri), excerpts |-> excerpts,
                fileHash |-> computeFileHash(excerpts, objects)])]

RECURSIVE CacheResults(_, _, _, _)
CacheResults(cache, found, i, objects) ==
  IF i > Len(found) THEN cache
  ELSE CacheResults(updateCacheForFile(cache, found[i].uri, found[i].excerpts, objects),
                    found, i + 1, objects)

initializeCache(opts, found, objects) ==
  CacheResults([set |-> TRUE, lastSearchOptions |-> opts, excerptsByFile |-> <<>>],
               found, 1, objects)

isSameSearchOptions(a, b) ==
  /\ a.query = b.query
  /\ a.isRegex = b.isRegex
  /\ a.isCaseSensitive = b.isCaseSensitive
  /\ a.matchWholeWord = b.matchWholeWord
  /\ a.includePattern = b.includePattern
  /\ a.excludePattern = b.excludePattern

EmptyResult == [added |-> <<>>, modified |-> <<>>, removed |-> <<>>, unchanged |-> <<>>,
                all |-> <<>>]

\* searchSingleFile: the excerpts were asked for
SingleBuilt(document, excerpts) ==
  LET failed == FirstInvalid(excerpts, document)
  IN IF failed > 0 THEN [threw |-> TRUE, excerpts |-> <<>>, used |-> failed]
     ELSE [threw |-> FALSE, excerpts |-> excerpts, used |-> Len(excerpts)]

\* searchSingleFile: the host reported matches for the file
SingleMatched(uri, opts, docs, bad, firstId, matches) ==
  IF Len(matches) = 0 THEN [threw |-> FALSE, excerpts |-> <<>>, used |-> 0]
  ELSE IF uri \in bad THEN [threw |-> TRUE, excerpts |-> <<>>, used |-> 0]
  ELSE SingleBuilt(docs[uri],
                   createExcerptsForFile(uri, matches,
                                         getContextValues(opts).contextBefore,
                                         getContextValues(opts).contextAfter,
                                         docs[uri], firstId))

\* searchSingleFile: [threw, excerpts (objects), used (ids generated)]
searchSingleFile(uri, opts, docs, hostText, bad, host, firstId) ==
  LET maxResults == IF opts.maxResults.set THEN opts.maxResults.value ELSE MAX_SAFE_INTEGER
  IN IF ~host \/ findTextInFilesRejects(opts)
       THEN [threw |-> TRUE, excerpts |-> <<>>, used |-> 0]
       ELSE SingleMatched(uri, opts, docs, bad, firstId,
                          HostMatches(uri, opts, hostText, maxResults))

\* performIncrementalUpdate, one pending file that is not skipped for its
\* size: single is what searchSingleFile returned or threw
UpdateFile(acc, fileUri, uri, single) ==
  LET ids == [k \in 1..Len(single.excerpts) |-> single.excerpts[k].id]
      cached == MapHas(acc.cache.excerptsByFile, fileUri)
      heapAfter == [id \in {ids[k] : k \in 1..Len(ids)} |->
                      single.excerpts[id - acc.nextId + 1]] @@ acc.heap
      dropped == [acc EXCEPT
                    !.result.removed = IF cached THEN Append(@, uri) ELSE @,
                    !.cache.excerptsByFile = MapDelete(@, fileUri)]
  IN IF single.threw THEN [dropped EXCEPT !.nextId = @ + single.used]
     ELSE IF Len(ids) > 0
       THEN [acc EXCEPT
               !.result.modified = IF cached
                                     THEN Append(@, [uri |-> uri, excerpts |-> ids])
                                     ELSE @,
               !.result.added = IF cached THEN @
                                ELSE Append(@, [uri |-> uri, excerpts |-> ids]),
               !.cache = updateCacheForFile(@, uri, ids, heapAfter),
               !.heap = heapAfter,
               !.nextId = @ + single.used]
     ELSE dropped

\* performIncrementalUpdate: the loop over filesToUpdate.  large: the files
\* whose size exceeds MAX_FILE_SIZE_FOR_INCREMENTAL
RECURSIVE UpdateFrom(_, _, _, _, _, _, _, _, _)
UpdateFrom(filesToUpdate, i, acc, opts, docs, hostText, bad, host, large) ==
  IF i > Len(filesToUpdate) THEN acc
  ELSE UpdateFrom(filesToUpdate, i + 1,
                  IF UriParse(filesToUpdate[i]) \in large THEN acc
                  ELSE UpdateFile(acc, filesToUpdate[i], UriParse(filesToUpdate[i]),
                                  searchSingleFile(UriParse(filesToUpdate[i]), opts, docs,
                                                   hostText, bad, host, acc.nextId)),
                  opts, docs, hostText, bad, host, large)

\* The cache entries that were not pending, as result entries
RECURSIVE UnchangedFrom(_, _, _)
UnchangedFrom(entries, i, filesToUpdate) ==
  IF i > Len(entries) THEN <<>>
  ELSE (IF \E k \in 1..Len(filesToUpdate) : filesToUpdate[k] = entries[i].key
          THEN <<>>
          ELSE <<[uri |-> UriParse(entries[i].key), excerpts |-> entries[i].excerpts]>>)
       \o UnchangedFrom(entries, i + 1, filesToUpdate)

Unchanged(cache, filesToUpdate) == UnchangedFrom(cache.excerptsByFile, 1, filesToUpdate)

\* The files in filesToUpdate listed as unchanged as well
UpdateDone_UpdatedFilesKept(updated, unchanged) ==
  [updated EXCEPT
     !.result.unchanged = Unchanged(updated.cache, <<>>),
     !.result.all = Unchanged(updated.cache, <<>>) \o updated.result.added
                      \o updated.result.modified]

\* performIncrementalUpdate after the loop: the unchanged entries and `all`
UpdateDone(updated, unchanged) ==
  [updated EXCEPT
     !.result.unchanged = unchanged,
     !.result.all = unchanged \o updated.result.added \o updated.result.modified]

\* performIncrementalUpdate: the cache was left unchanged for the entries
\* that were not in filesToUpdate
UpdateLooped(updated, pending) == UpdateDone(updated, Unchanged(updated.cache, pending))

performIncrementalUpdate(cache, pending, objects, firstId, opts, docs, hostText, bad, host, large) ==
  UpdateLooped(UpdateFrom(pending, 1,
                          [result |-> EmptyResult, cache |-> cache, heap |-> objects,
                           nextId |-> firstId],
                          opts, docs, hostText, bad, host, large),
               pending)

(***************************************************************************)
(* Scenario texts.                                                         *)
(***************************************************************************)
Foo == <<"f", "o", "o">>
Bar == <<"b", "a", "r">>
Baz == <<"b", "a", "z">>
FooAndFoo == <<"F", "o", "o", " ", "a", "n", "d", " ", "f", "o", "o">>
IndentedFoo == <<" ", " ", "f", "o", "o">>
PlainX == <<" ", "x", " ">>

FileA == <<"/", "a">>
FileB == <<"/", "b">>

\* A document of n lines whose lines in M contain the query
MatchLine(l) == IF l % 2 = 0 THEN IndentedFoo ELSE FooAndFoo
PlainLine(l) == IF l % 3 = 0 THEN PlainX ELSE Bar
Doc(n, M) == [i \in 1..n |-> IF (i - 1) \in M THEN MatchLine(i - 1) ELSE PlainLine(i - 1)]

MatchSets(n) == {M \in SUBSET (0..(n - 1)) : Cardinality(M) >= 1 /\ Cardinality(M) <= MaxMatches}

Options(rep, cs, cb, ca) ==
  [query |-> Foo, replacement |-> Bar, isReplace |-> rep, isRegex |-> FALSE,
   isCaseSensitive |-> cs, matchWholeWord |-> FALSE,
   contextBefore |-> cb, contextAfter |-> ca,
   includePattern |-> <<>>, excludePattern |-> <<>>,
   maxResults |-> [set |-> FALSE, value |-> 0]]

\* No call of searchWorkspaceIncremental is suspended.  full is what
\* searchWorkspace computes, updated what the first loop of
\* performIncrementalUpdate computes
NoCall ==
  [kind |-> "none",
   full |-> [results |-> <<>>, heap |-> <<>>, nextId |-> 0, globalCount |-> 0,
             threw |-> "none"],
   updated |-> [result |-> EmptyResult, cache |-> NoCache, heap |-> <<>>, nextId |-> 0],
   filesToUpdate |-> <<>>]
NoScan == [pc |-> "idle", lineNum |-> 0, idx |-> 0, last |-> -1, ranges |-> <<>>]
NoError == [kind |-> "none", files |-> <<>>]
NoMessage == [kind |-> "none", text |-> "", files |-> <<>>]

InitRest ==
  /\ disk = buffer
  /\ heap = <<>>
  /\ nextId = 1
  /\ results = <<>>
  /\ content = <<>>
  /\ mapping = EmptyMapping
  /\ validation = [isValid |-> TRUE, errors |-> {}]
  /\ originalContent = <<>>
  /\ changes = <<>>
  /\ edits = [u \in DOMAIN buffer |-> 0]
  /\ pc = "start"
  /\ message = NoMessage
  /\ applyPc = "idle"
  /\ applyIdx = 0
  /\ edit = <<>>
  /\ savedFiles = {}
  /\ error = NoError
  /\ cancelled = FALSE
  /\ token = FALSE
  /\ docUri = 1
  /\ documents = <<>>
  /\ changeTrackers = <<>>
  /\ openDocs = {}
  /\ searchCache = NoCache
  /\ pendingUpdates = <<>>
  /\ incremental = EmptyResult
  /\ scan = NoScan
  /\ reported = <<>>
  /\ inflight = NoCall
  /\ fileWatcher = FALSE
  /\ invocations = 1

\* Two files of SmallLines lines with one match each
Init ==
  /\ uris = <<FileA, FileB>>
  /\ \E la \in 0..(SmallLines - 1), lb \in 0..(SmallLines - 1) :
       buffer = (FileA :> Doc(SmallLines, {la})) @@ (FileB :> Doc(SmallLines, {lb}))
  /\ \E rep \in BOOLEAN, cs \in BOOLEAN, cb \in 0..MaxContext, ca \in 0..MaxContext :
       options = Options(rep, cs, cb, ca)
  /\ source = buffer
  /\ findTextInFiles = FALSE
  /\ unreadable = {}
  /\ useIncremental = FALSE
  /\ InitRest

\* One file of NumLines lines, every placement of at most MaxMatches matches
InitWide ==
  /\ uris = <<FileA>>
  /\ \E M \in MatchSets(NumLines) : buffer = (FileA :> Doc(NumLines, M))
  /\ \E rep \in BOOLEAN, cb \in 0..MaxContext, ca \in 0..MaxContext :
       options = Options(rep, FALSE, cb, ca)
  /\ source = buffer
  /\ findTextInFiles = FALSE
  /\ unreadable = {}
  /\ useIncremental = FALSE
  /\ InitRest

(***************************************************************************)
(* The search / replace command (SearchCommand.execute,                    *)
(* ReplaceCommand.execute).                                                *)
(***************************************************************************)
Info(text) == [kind |-> "info", text |-> text, files |-> <<>>]
Warning(text) == [kind |-> "warning", text |-> text, files |-> <<>>]
ErrorText(text) == [kind |-> "error", text |-> text, files |-> <<>>]

applyVars == <<applyPc, applyIdx, edit, savedFiles, error, cancelled>>
hostVars == <<findTextInFiles, unreadable, useIncremental>>
unitVars == <<scan, reported>>
runVars == <<inflight, fileWatcher, invocations>>
registryVars == <<docUri, documents, changeTrackers, openDocs>>
cacheVars == <<searchCache, pendingUpdates, incremental>>

\* searchWorkspaceIncremental, a new search: full is what searchWorkspace
\* returned or threw; initializeCache runs only when it returned
NewSearch(full) ==
  [threw |-> full.threw, results |-> full.results, heap |-> full.heap,
   nextId |-> full.nextId,
   cache |-> IF full.threw # "none" THEN NoCache
             ELSE initializeCache(options, full.results, full.heap),
   pending |-> <<>>,
   result |-> IF full.threw # "none" THEN incremental
              ELSE [EmptyResult EXCEPT !.added = full.results, !.all = full.results]]

\* searchWorkspaceIncremental, the same search again: update is what
\* performIncrementalUpdate returned
SameSearch(update) ==
  [threw |-> "none", results |-> update.result.all, heap |-> update.heap,
   nextId |-> update.nextId, cache |-> update.cache, pending |-> <<>>,
   result |-> update.result]

\* searchWorkspaceIncremental(options): [threw, results, heap, nextId, cache,
\* pending, result]
searchWorkspaceIncremental(large) ==
  IF ~searchCache.set \/ ~isSameSearchOptions(options, searchCache.lastSearchOptions)
    THEN NewSearch(searchWorkspace(uris, heap, nextId, options, buffer, source,
                                   unreadable, findTextInFiles))
    ELSE SameSearch(performIncrementalUpdate(searchCache, pendingUpdates, heap, nextId,
                                             options, buffer, source, unreadable,
                                             findTextInFiles, large))

\* The service the command was built with is the plain SearchService: plain
\* is what searchWorkspace returned or threw
PlainSearch(plain) ==
  [threw |-> plain.threw, results |-> plain.results, heap |-> plain.heap,
   nextId |-> plain.nextId, cache |-> searchCache, pending |-> pendingUpdates,
   result |-> incremental]

\* What the command does once the search has settled: "failed" (the search
\* rejected), "cancelled" (token.isCancellationRequested), "empty" (no
\* result), or "format"
Continue_NoTokenCheck(threw, isCancellationRequested, size) ==
  IF threw THEN "failed"
  ELSE IF size = 0 THEN "empty"
  ELSE "format"

Continue(threw, isCancellationRequested, size) ==
  IF threw THEN "failed"
  ELSE IF isCancellationRequested THEN "cancelled"
  ELSE IF size = 0 THEN "empty"
  ELSE "format"

\* showErrorMessage of the command's catch block
FailedMessage ==
  ErrorText(IF options.isReplace THEN "Replace operation failed" ELSE "Search failed")

\* The command after `await searchWorkspace(options)` (or the incremental
\* search) has settled with found: the cancellation check and the
\* empty-result check
Settled(found) ==
  /\ heap' = found.heap
  /\ nextId' = found.nextId
  /\ searchCache' = found.cache
  /\ pendingUpdates' = found.pending
  /\ incremental' = found.result
  /\ LET then == Continue(found.threw # "none", token, Len(found.results))
     IN /\ results' = IF then = "failed" THEN results ELSE found.results
        /\ pc' = IF then = "format" THEN "searched" ELSE "done"
        /\ message' = CASE then = "failed" -> FailedMessage
                         [] then = "empty" -> Info("No results found")
                         [] OTHER -> message

\* const results = await searchWorkspace(options) (or the incremental search's
\* `all`), then the cancellation check and the empty-result check
Search ==
  /\ pc = "start"
  /\ \E large \in SUBSET {UriParse(pendingUpdates[k]) : k \in 1..Len(pendingUpdates)} :
       Settled(IF useIncremental
                 THEN searchWorkspaceIncremental(large)
                 ELSE PlainSearch(searchWorkspace(uris, heap, nextId, options, buffer,
                                                  source, unreadable, findTextInFiles)))
  /\ UNCHANGED <<buffer, disk, uris, source, options, content, mapping, validation,
                 originalContent, changes, edits, token>>
  /\ UNCHANGED <<applyVars, hostVars, unitVars, runVars, registryVars>>

\* formatSearchResults and provider.addDocument; openTextDocument is called
Format ==
  /\ pc = "searched"
  /\ LET formatted == formatSearchResults(results, options, heap, buffer)
     IN /\ content' = formatted.lines
        /\ mapping' = formatted.mapping
        /\ heap' = formatted.heap
        /\ documents' = (docUri :> [content |-> formatted.lines,
                                    mapping |-> formatted.mapping]) @@ documents
  /\ pc' = "formatted"
  /\ UNCHANGED <<buffer, disk, uris, source, options, nextId, results, validation,
                 originalContent, changes, edits, message, token, docUri, changeTrackers,
                 openDocs>>
  /\ UNCHANGED <<applyVars, hostVars, unitVars, runVars, cacheVars>>

\* A caller (a test) validates the mapping the formatter built
Validate ==
  /\ pc = "formatted"
  /\ validation' = validateMultiBufferMapping(mapping, heap)
  /\ pc' = "validated"
  /\ UNCHANGED <<buffer, disk, uris, source, options, heap, nextId, results, content, mapping,
                 originalContent, changes, edits, message, token>>
  /\ UNCHANGED <<applyVars, hostVars, unitVars, runVars, registryVars, cacheVars>>

\* await vscode.workspace.openTextDocument(uri) resolves; showTextDocument is called
OpenDocument ==
  /\ pc = "formatted"
  /\ openDocs' = openDocs \cup {docUri}
  /\ pc' = "opened"
  /\ UNCHANGED <<buffer, disk, uris, source, options, heap, nextId, results, content, mapping,
                 validation, originalContent, changes, edits, message, token, docUri,
                 documents, changeTrackers>>
  /\ UNCHANGED <<applyVars, hostVars, unitVars, runVars, cacheVars>>

\* await vscode.window.showTextDocument(document) settles; on success
\* changeTracker.initialize(document, mapping) and provider.setChangeTracker
Initialize ==
  /\ pc = "opened"
  /\ \E shown \in BOOLEAN :
       IF shown
         THEN /\ originalContent' = initialize(content, mapping, heap)
              /\ changeTrackers' = (docUri :> initialize(content, mapping, heap))
                                     @@ changeTrackers
              /\ openDocs' = openDocs \cup {docUri}
              /\ pc' = "tracking"
              /\ message' = message
         ELSE /\ pc' = "done"
              /\ message' = FailedMessage
              /\ UNCHANGED <<originalContent, changeTrackers, openDocs>>
  /\ UNCHANGED <<buffer, disk, uris, source, options, heap, nextId, results, content, mapping,
                 validation, changes, edits, token, docUri, documents>>
  /\ UNCHANGED <<applyVars, hostVars, unitVars, runVars, cacheVars>>

\* The user cancels the progress notification of the search
CancelSearch ==
  /\ pc \in {"start", "formatted", "opened"}
  /\ ~token
  /\ token' = TRUE
  /\ UNCHANGED <<buffer, disk, uris, source, options, heap, nextId, results, content, mapping,
                 validation, originalContent, changes, edits, pc, message>>
  /\ UNCHANGED <<applyVars, hostVars, unitVars, runVars, registryVars, cacheVars>>

\* onDidCloseTextDocument of an aggregate document: provider.removeDocument
CloseDocument ==
  /\ \E d \in openDocs :
       /\ openDocs' = openDocs \ {d}
       /\ IF d \in DOMAIN documents
            THEN /\ documents' = [k \in DOMAIN documents \ {d} |-> documents[k]]
                 /\ changeTrackers' = [k \in DOMAIN changeTrackers \ {d} |-> changeTrackers[k]]
            ELSE UNCHANGED <<documents, changeTrackers>>
  /\ UNCHANGED <<buffer, disk, uris, source, options, heap, nextId, results, content, mapping,
                 validation, originalContent, changes, edits, pc, message, token, docUri>>
  /\ UNCHANGED <<applyVars, hostVars, unitVars, runVars, cacheVars>>

(***************************************************************************)
(* The user edits the aggregate document: the text after the line-number   *)
(* and prefix columns of one excerpt line is replaced.                     *)
(***************************************************************************)
EditTexts == {Baz}

ExcerptLines(id) ==
  heap[id].multiBufferRange.start.line .. heap[id].multiBufferRange.end.line

UserEdit ==
  /\ pc = "tracking"
  /\ docUri \in openDocs
  /\ \E id \in DOMAIN mapping.excerpts, text \in EditTexts :
       \E l \in ExcerptLines(id) :
         LET line == LineAt(content, l)
             edited == Substring2(line, 0, Min(CONTENT_START_INDEX, Len(line))) \o text
         IN /\ edits[heap[id].fileUri] < MaxEdits
            /\ edited # line
            /\ content' = [content EXCEPT ![l + 1] = edited]
            /\ edits' = [edits EXCEPT ![heap[id].fileUri] = @ + 1]
  /\ UNCHANGED <<buffer, disk, uris, source, options, heap, nextId, results, mapping, validation,
                 originalContent, changes, pc, message, token>>
  /\ UNCHANGED <<applyVars, hostVars, unitVars, runVars, registryVars, cacheVars>>

(***************************************************************************)
(* ApplyChangesCommand.execute.                                            *)
(***************************************************************************)
\* The command is run on the active editor, which shows the aggregate
\* document: the registry lookups, computeChanges and the confirmation prompt
BeginApply ==
  /\ pc = "tracking"
  /\ docUri \in openDocs
  /\ IF docUri \notin DOMAIN documents
       THEN /\ pc' = "done"
            /\ message' = ErrorText("Multi-buffer document not found")
            /\ UNCHANGED changes
     ELSE IF docUri \notin DOMAIN changeTrackers
       THEN /\ pc' = "done"
            /\ message' = ErrorText("Change tracker not initialized")
            /\ UNCHANGED changes
     ELSE IF computeChangesThrows(content, documents[docUri].mapping, heap,
                                  changeTrackers[docUri], buffer)
       THEN \* caught by the outer try: logged to the console only
            /\ pc' = "done"
            /\ UNCHANGED <<changes, message>>
     ELSE LET computed == computeChanges(content, documents[docUri].mapping, heap,
                                         changeTrackers[docUri], buffer)
          IN /\ changes' = computed
             /\ IF Len(computed) = 0
                  THEN pc' = "done" /\ message' = Info("No changes to apply")
                  ELSE pc' = "confirm" /\ message' = message
  /\ UNCHANGED <<buffer, disk, uris, source, options, heap, nextId, results, content, mapping,
                 validation, originalContent, edits, token>>
  /\ UNCHANGED <<applyVars, hostVars, unitVars, runVars, registryVars, cacheVars>>

\* The user answers the prompt; 'Yes' starts applyChanges under withProgress
Confirm ==
  /\ pc = "confirm"
  /\ \E answer \in {"Yes", "No"} :
       IF answer = "Yes"
         THEN pc' = "applying" /\ applyPc' = "open" /\ applyIdx' = 1
         ELSE pc' = "done" /\ UNCHANGED <<applyPc, applyIdx>>
  /\ UNCHANGED <<buffer, disk, uris, source, options, heap, nextId, results, content, mapping,
                 validation, originalContent, changes, edits, message, edit, savedFiles,
                 error, cancelled, token>>
  /\ UNCHANGED <<hostVars, unitVars, runVars, registryVars, cacheVars>>

(***************************************************************************)
(* ChangeTracker.applyChanges: one action per await.  The continuation of  *)
(* the command after Promise.race runs in the same turn as the settling of *)
(* applyChanges, so it is part of the settling step.                       *)
(***************************************************************************)
ErrorMessage(err) ==
  [kind |-> "error",
   text |-> "Failed to apply changes. Some files may have been partially modified.",
   files |-> err.files]

ChangedUris == [i \in 1..Len(changes) |-> changes[i].uri]

\* applyChanges returns; the command reports success unless the race is over
Resolve ==
  /\ applyPc' = "resolved"
  /\ IF pc = "applying"
       THEN pc' = "done" /\ message' = Info("Successfully applied changes")
       ELSE UNCHANGED <<pc, message>>

\* applyChanges throws; the command reports the failure unless the race is over
Throw(kind, files) ==
  /\ applyPc' = "failed"
  /\ error' = [kind |-> kind, files |-> files]
  /\ IF pc = "applying"
       THEN pc' = "done" /\ message' = ErrorMessage([kind |-> kind, files |-> files])
       ELSE UNCHANGED <<pc, message>>

\* The edits applyChanges prepares for one FileChange
PreparedEdits(fileChange, document) ==
  [k \in 1..Len(fileChange.changes) |->
     LET line == fileChange.changes[k].range.start.line
     IN [uri |-> fileChange.uri, line |-> line,
         newText |-> LeadingWhitespace(LineAt(document, line))
                       \o fileChange.changes[k].newText]]

\* First pass: await openTextDocument(fileChange.uri), then edit.replace per change
ApplyOpen ==
  /\ applyPc = "open"
  /\ LET fileChange == changes[applyIdx]
         document == buffer[fileChange.uri]
         outOfRange == \E k \in 1..Len(fileChange.changes) :
                         fileChange.changes[k].range.start.line >= LineCount(document)
     IN \E opened \in BOOLEAN :
          IF ~opened
            THEN Throw("open", <<fileChange.uri>>) /\ UNCHANGED <<edit, applyIdx>>
          ELSE IF outOfRange
            THEN Throw("prepare", <<fileChange.uri>>) /\ UNCHANGED <<edit, applyIdx>>
          ELSE /\ edit' = edit \o PreparedEdits(fileChange, document)
               /\ IF applyIdx < Len(changes)
                    THEN applyIdx' = applyIdx + 1 /\ applyPc' = "open"
                    ELSE applyIdx' = 1 /\ applyPc' = "applyEdit"
               /\ UNCHANGED <<error, pc, message>>
  /\ UNCHANGED <<buffer, disk, uris, source, options, heap, nextId, results, content, mapping,
                 validation, originalContent, changes, edits, savedFiles, cancelled, token>>
  /\ UNCHANGED <<hostVars, unitVars, runVars, registryVars, cacheVars>>

\* The text of the documents after the host applied the WorkspaceEdit
Edited(docs, workspaceEdit) ==
  [u \in DOMAIN docs |->
     [i \in 1..Len(docs[u]) |->
        LET hits == {k \in 1..Len(workspaceEdit) :
                       workspaceEdit[k].uri = u /\ workspaceEdit[k].line = i - 1}
        IN IF hits = {} THEN docs[u][i] ELSE workspaceEdit[SetMin(hits)].newText]]

\* The host refuses a WorkspaceEdit with two edits of the same range
Overlapping(workspaceEdit) ==
  \E j, k \in 1..Len(workspaceEdit) :
    /\ j # k
    /\ workspaceEdit[j].uri = workspaceEdit[k].uri
    /\ workspaceEdit[j].line = workspaceEdit[k].line

\* await vscode.workspace.applyEdit(edit): all text edits or none
ApplyEdit ==
  /\ applyPc = "applyEdit"
  /\ \E success \in BOOLEAN :
       IF success /\ ~Overlapping(edit)
         THEN /\ buffer' = Edited(buffer, edit)
              /\ applyPc' = "save"
              /\ UNCHANGED <<error, pc, message>>
         ELSE /\ Throw("applyEdit", ChangedUris)
              /\ UNCHANGED buffer
  /\ UNCHANGED <<disk, uris, source, options, heap, nextId, results, content, mapping, validation,
                 originalContent, changes, edits, applyIdx, edit, savedFiles, cancelled,
                 token>>
  /\ UNCHANGED <<hostVars, unitVars, runVars, registryVars, cacheVars>>

\* Second pass: await document.save() for the next file
ApplySave ==
  /\ applyPc = "save"
  /\ LET fileChange == changes[applyIdx]
         fileKey == UriToString(fileChange.uri)
         last == applyIdx = Len(changes)
     IN \E outcome \in {"saved", "not saved", "throws"} :
          IF outcome = "throws"
            THEN /\ Throw("save", <<fileChange.uri>>)
                 /\ UNCHANGED <<disk, savedFiles, applyIdx>>
            ELSE /\ disk' = IF outcome = "saved"
                              THEN [disk EXCEPT ![fileChange.uri] = buffer[fileChange.uri]]
                              ELSE disk
                 /\ savedFiles' = savedFiles \cup {fileKey}
                 /\ applyIdx' = IF last THEN applyIdx ELSE applyIdx + 1
                 /\ IF last THEN Resolve ELSE UNCHANGED <<applyPc, pc, message>>
                 /\ UNCHANGED error
  /\ UNCHANGED <<buffer, uris, source, options, heap, nextId, results, content, mapping, validation,
                 originalContent, changes, edits, edit, cancelled, token>>
  /\ UNCHANGED <<hostVars, unitVars, runVars, registryVars, cacheVars>>

\* token.onCancellationRequested fires while applyChanges is pending: the race
\* is lost by applyChanges, which nothing stops
Cancel ==
  /\ pc = "applying"
  /\ applyPc \in {"open", "applyEdit", "save"}
  /\ cancelled' = TRUE
  /\ message' = Warning("Changes cancelled. No files were modified.")
  /\ pc' = "cancelled"
  /\ UNCHANGED <<buffer, disk, uris, source, options, heap, nextId, results, content, mapping,
                 validation, originalContent, changes, edits, applyPc, applyIdx, edit,
                 savedFiles, error, token>>
  /\ UNCHANGED <<hostVars, unitVars, runVars, registryVars, cacheVars>>

Next ==
  \/ Search
  \/ Format
  \/ Validate
  \/ OpenDocument
  \/ Initialize
  \/ UserEdit
  \/ BeginApply
  \/ Confirm
  \/ ApplyOpen
  \/ ApplyEdit
  \/ ApplySave
  \/ Cancel

Spec == Init /\ [][Next]_vars

\* The steps up to the change set, for the scenarios of InitWide
NextWide ==
  \/ Search
  \/ Format
  \/ Validate
  \/ OpenDocument
  \/ Initialize
  \/ UserEdit
  \/ BeginApply

SpecWide == InitWide /\ [][NextWide]_vars

(***************************************************************************)
(* The search phase of the command under the conditions of the host: the   *)
(* host search or the fallback, a file that cannot be opened, a file that  *)
(* was shortened after the host searched it, a pattern that does not       *)
(* compile, the cancellation of the progress, the closing of the document. *)
(***************************************************************************)
FDotO == <<"f", ".", "o">>
FParenO == <<"f", "(", "o">>

\* The queries of the search phase scenarios: [query, isRegex]
Queries ==
  {[query |-> Foo, isRegex |-> FALSE], [query |-> FDotO, isRegex |-> TRUE],
   [query |-> FParenO, isRegex |-> TRUE]}

\* The texts a file of text t may have when it is opened after the host
\* searched it: t itself, or t cut after its first lines
Shortened(t) == {SubSeq(t, 1, n) : n \in 1..Len(t)}

InitSearch ==
  /\ uris = <<FileA, FileB>>
  /\ \E la \in 0..(SmallLines - 1), lb \in 0..(SmallLines - 1) :
       source = (FileA :> Doc(SmallLines, {la})) @@ (FileB :> Doc(SmallLines, {lb}))
  /\ \E u \in {FileA, FileB} : \E t \in Shortened(source[u]) :
       buffer = [source EXCEPT ![u] = t]
  /\ \E rep \in BOOLEAN, q \in Queries, c \in 0..MaxContext :
       /\ options = [Options(rep, FALSE, c, c) EXCEPT !.query = q.query,
                                                         !.isRegex = q.isRegex]
       \* the input box of the search command refuses a pattern that does not compile
       /\ rep \/ ~q.isRegex \/ RegExpValid(q.query)
  /\ findTextInFiles \in BOOLEAN
  /\ unreadable \in {{}, {FileA}, {FileB}}
  /\ useIncremental = FALSE
  /\ InitRest

NextSearch ==
  \/ CancelSearch
  \/ Search
  \/ Format
  \/ OpenDocument
  \/ Initialize
  \/ CloseDocument

SpecSearch == InitSearch /\ [][NextSearch]_vars

(***************************************************************************)
(* The command run again and again with the incremental service: the       *)
(* service keeps its cache between the runs, the file watcher reports the  *)
(* files written in between.                                               *)
(***************************************************************************)
\* handleFileChange: pendingUpdates after the watcher reported uri
handleFileChange(cache, pending, uri) ==
  IF ~cache.set THEN pending
  ELSE IF \E k \in 1..Len(pending) : pending[k] = UriToString(uri) THEN pending
  ELSE Append(pending, UriToString(uri))

\* A file is written between two runs of the command (one of its lines now
\* reads text, possibly what it read before) and the watcher reports it;
\* a file is written at most once between two searches
FileChange ==
  /\ pc \in {"tracking", "done"}
  /\ docUri < MaxSearches
  /\ searchCache.set
  /\ \E u \in DOMAIN buffer, l \in 0..(SmallLines - 1) :
       \E text \in {MatchLine(l), PlainLine(l)} :
         /\ \A k \in 1..Len(pendingUpdates) : pendingUpdates[k] # UriToString(u)
         /\ buffer' = [buffer EXCEPT ![u][l + 1] = text]
         /\ disk' = [disk EXCEPT ![u][l + 1] = text]
         /\ source' = [source EXCEPT ![u][l + 1] = text]
         /\ pendingUpdates' = handleFileChange(searchCache, pendingUpdates, u)
  /\ UNCHANGED <<uris, options, heap, nextId, results, content, mapping, validation,
                 originalContent, changes, edits, pc, message, token, searchCache,
                 incremental>>
  /\ UNCHANGED <<applyVars, hostVars, unitVars, runVars, registryVars>>

\* The user runs the command again: getSearchOptions returns the options of
\* the new run, the aggregate document of the run gets a new uri
NewCommand ==
  /\ pc \in {"tracking", "done"}
  /\ docUri < MaxSearches
  /\ \E c \in 0..MaxContext :
       options' = [options EXCEPT !.contextBefore = c, !.contextAfter = c]
  /\ docUri' = docUri + 1
  /\ invocations' = invocations + 1
  /\ pc' = "start"
  /\ token' = FALSE
  /\ message' = NoMessage
  /\ UNCHANGED <<buffer, disk, uris, source, heap, nextId, results, content, mapping,
                 validation, originalContent, changes, edits, documents, changeTrackers,
                 openDocs, inflight, fileWatcher>>
  /\ UNCHANGED <<applyVars, hostVars, unitVars, cacheVars>>

\* Two files of SmallLines lines, the first with one match, the second with
\* at most one; the extension was activated with incrementalUpdates.enabled
InitIncremental ==
  /\ uris = <<FileA, FileB>>
  /\ \E la \in 0..(SmallLines - 1), M \in SUBSET (0..(SmallLines - 1)) :
       /\ Cardinality(M) <= 1
       /\ buffer = (FileA :> Doc(SmallLines, {la})) @@ (FileB :> Doc(SmallLines, M))
  /\ \E c \in 0..MaxContext : options = Options(FALSE, FALSE, c, c)
  /\ source = buffer
  /\ findTextInFiles = TRUE
  /\ unreadable = {}
  /\ useIncremental = TRUE
  /\ InitRest

NextIncremental ==
  \/ Search
  \/ Format
  \/ OpenDocument
  \/ Initialize
  \/ FileChange
  \/ NewCommand

SpecIncremental == InitIncremental /\ [][NextIncremental]_vars

(***************************************************************************)
(* Matching and replacing: one file, searched by the host or by the        *)
(* fallback, with a literal or a regex query, with or without case and     *)
(* whole-word matching, and replacements with and without '$' patterns.    *)
(***************************************************************************)
FoobarFoo == <<"f", "o", "o", "b", "a", "r", " ", "f", "o", "o">>
Cat == <<"c", "a", "t">>
Concatenate ==
  <<"c", "o", "n", "c", "a", "t", "e", "n", "a", "t", "e", " ", "c", "a", "t", " ",
    "c", "a", "t", "e", "g", "o", "r", "y">>

\* The replacement strings: plain, "[$&]" and "$$"
Replacements == {Bar, <<"[", "$", "&", "]">>, <<"$", "$">>}

\* The query and the lines of the file
MatchScenarios ==
  {[query |-> Foo, lines |-> <<FooAndFoo, Bar, FoobarFoo>>],
   [query |-> Cat, lines |-> <<Concatenate, Bar>>]}

InitReplace ==
  /\ uris = <<FileA>>
  /\ \E sc \in MatchScenarios :
       /\ buffer = (FileA :> sc.lines)
       /\ \E rep \in BOOLEAN, cs \in BOOLEAN, c \in 0..1, regex \in BOOLEAN,
             word \in BOOLEAN, replacement \in Replacements :
            options = [Options(rep, cs, c, c) EXCEPT !.query = sc.query,
                                                      !.isRegex = regex,
                                                      !.matchWholeWord = word,
                                                      !.replacement = replacement]
  /\ source = buffer
  /\ findTextInFiles \in BOOLEAN
  /\ unreadable = {}
  /\ useIncremental = FALSE
  /\ InitRest

NextReplace ==
  \/ Search
  \/ Format
  \/ OpenDocument
  \/ Initialize

SpecReplace == InitReplace /\ [][NextReplace]_vars

(***************************************************************************)
(* findMatchesInDocument, loop by loop: the fallback scans one file.  The  *)
(* record scan holds the position in the function (pc), the locals lineNum *)
(* and ranges, idx (the literal loop's idx, the regex loop's lastIndex)    *)
(* and last, the index of the last match found on the line (-1: none).     *)
(***************************************************************************)
MaxRanges == 9

commandVars == <<buffer, disk, uris, source, options, heap, nextId, results, content, mapping,
                 validation, originalContent, changes, edits, pc, message, token>>

\* maxResults - globalCount for the first file of the fallback
Remaining(opts) == IF opts.maxResults.set THEN opts.maxResults.value ELSE MAX_SAFE_INTEGER

\* The index the while condition finds: regex.exec(text) from lastIndex idx,
\* or haystack.indexOf(needle, idx); -1 ends the loop
ScanMatch(text, opts, idx) ==
  IF opts.isRegex
    THEN IF idx > Len(text) THEN -1
         ELSE RegExpExec(text, opts.query, opts.isCaseSensitive, idx)
    ELSE IndexOf(IF opts.isCaseSensitive THEN text ELSE ToLowerCase(text),
                 IF opts.isCaseSensitive THEN opts.query ELSE ToLowerCase(opts.query),
                 idx)

\* One evaluation of the while condition of a line and, when it holds, one
\* pass of the loop body
WhileStep(s, document, opts, remaining) ==
  LET text == LineAt(document, s.lineNum)
      at == ScanMatch(text, opts, s.idx)
      length == IF opts.isRegex \/ opts.isCaseSensitive THEN Len(opts.query)
                ELSE Len(ToLowerCase(opts.query))
  IN IF at = -1 \/ Len(s.ranges) >= remaining
       THEN [s EXCEPT !.pc = "for", !.lineNum = @ + 1, !.idx = 0, !.last = -1]
       ELSE [s EXCEPT !.idx = IF opts.isRegex
                                THEN IF length = 0 THEN at + 1 ELSE at + length
                                ELSE at + Max(1, length),
                      !.last = at,
                      !.ranges = IF ~opts.matchWholeWord \/ isWordBoundary(text, at, length)
                                   THEN Append(@, Range(s.lineNum, at, s.lineNum, at + length))
                                   ELSE @]

\* findMatchesInDocument(document, options, maxResults - globalCount) is called
ScanStart ==
  /\ scan.pc = "idle"
  /\ ~findMatchesThrows(options)
  /\ scan' = [NoScan EXCEPT !.pc = "for"]
  /\ UNCHANGED <<commandVars, applyVars, hostVars, registryVars, cacheVars, reported, runVars>>

\* The head of the for loop over the lines, and the return
ScanFor ==
  /\ scan.pc = "for"
  /\ scan' = IF scan.lineNum < LineCount(buffer[FileA])
                /\ Len(scan.ranges) < Remaining(options)
               THEN [scan EXCEPT !.pc = "while", !.idx = 0, !.last = -1]
               ELSE [scan EXCEPT !.pc = "done"]
  /\ UNCHANGED <<commandVars, applyVars, hostVars, registryVars, cacheVars, reported, runVars>>

\* One pass of the while loop of the line; the model follows the loop for
\* MaxRanges ranges
ScanWhile ==
  /\ scan.pc = "while"
  /\ Len(scan.ranges) < MaxRanges
  /\ scan' = WhileStep(scan, buffer[FileA], options, Remaining(options))
  /\ UNCHANGED <<commandVars, applyVars, hostVars, registryVars, cacheVars, reported, runVars>>

\* One file of two lines; the query is 'foo' or empty, literal or regex
InitScan ==
  /\ uris = <<FileA>>
  /\ buffer = (FileA :> <<Foo, Bar>>)
  /\ \E q \in {Foo, <<>>}, cs \in BOOLEAN, regex \in BOOLEAN, word \in BOOLEAN,
        limit \in {[set |-> FALSE, value |-> 0], [set |-> TRUE, value |-> 2]} :
       options = [Options(FALSE, cs, 0, 0) EXCEPT !.query = q, !.isRegex = regex,
                                                  !.matchWholeWord = word,
                                                  !.maxResults = limit]
  /\ source = buffer
  /\ findTextInFiles = FALSE
  /\ unreadable = {}
  /\ useIncremental = FALSE
  /\ InitRest

NextScan ==
  \/ ScanStart
  \/ ScanFor
  \/ ScanWhile

SpecScan == InitScan /\ [][NextScan]_vars

(***************************************************************************)
(* The literal matcher on one line: the query in some letter case, lines   *)
(* that hold it in several letter cases, next to other occurrences, and    *)
(* after a letter whose lower-case form is two code units long.            *)
(***************************************************************************)
FooCapital == <<"F", "o", "o">>
FooThrice == <<"f", "o", "o", " ", "F", "O", "O", " ", "f", "O", "o">>
FooFoo == <<"f", "o", "o", "F", "o", "o">>
Ooo == <<"o", "o", "o">>
DottedFoo == <<CapitalIDot, " ", "F", "o", "o">>

LiteralLines == {FooThrice, FooFoo, Ooo, DottedFoo, Bar}

LiteralQueries == {FooCapital, Foo, <<"o", "o">>, <<"O">>}

\* One file of one line, a literal query, either case sensitivity
InitLiteral ==
  /\ uris = <<FileA>>
  /\ \E text \in LiteralLines : buffer = (FileA :> <<text>>)
  /\ \E q \in LiteralQueries, cs \in BOOLEAN :
       options = [Options(FALSE, cs, 0, 0) EXCEPT !.query = q]
  /\ source = buffer
  /\ findTextInFiles = FALSE
  /\ unreadable = {}
  /\ useIncremental = FALSE
  /\ InitRest

SpecLiteral == InitLiteral /\ [][NextScan]_vars

(***************************************************************************)
(* The host search with given matches: the callback of findTextInFiles     *)
(* delivers single-line and multi-line ranges of one file, which do not    *)
(* overlap; createExcerptsForFile sorts them by start line (a stable sort) *)
(* and merges them.                                                        *)
(***************************************************************************)
SpanLines == 4

\* The positions at which a reported range starts or ends
SpanPositions == {Position(l, c) : l \in 0..(SpanLines - 1), c \in {0, 2}}

Spans == {RangeOf(pq[1], pq[2]) : pq \in {x \in SpanPositions \X SpanPositions : IsAfter(x[2], x[1])}}

Disjoint(a, b) == ~IsAfter(a.end, b.start) \/ ~IsAfter(b.end, a.start)

\* The lists of at most two ranges the host may report, in any order that
\* the sort by start line keeps
SpanLists ==
  {<<a>> : a \in Spans}
    \cup {<<ab[1], ab[2]>> : ab \in {x \in Spans \X Spans : /\ Disjoint(x[1], x[2])
                                                           /\ x[1].start.line <= x[2].start.line}}

\* The callback of findTextInFiles has pushed the matches of the file
HostReports ==
  /\ pc = "start"
  /\ reported = <<>>
  /\ \E spans \in SpanLists : reported' = spans
  /\ UNCHANGED <<commandVars, applyVars, hostVars, registryVars, cacheVars, scan, runVars>>

\* searchWorkspace after findTextInFiles resolved with the reported matches,
\* then the command's cancellation check and empty-result check
SearchReported ==
  /\ pc = "start"
  /\ findTextInFiles
  /\ reported # <<>>
  /\ Settled(PlainSearch(HostMatched([results |-> <<>>, heap |-> heap, nextId |-> nextId,
                                      globalCount |-> 0, threw |-> "none"],
                                     FileA, buffer, unreadable, options, reported)))
  /\ UNCHANGED <<buffer, disk, uris, source, options, content, mapping, validation,
                 originalContent, changes, edits, token>>
  /\ UNCHANGED <<applyVars, hostVars, unitVars, runVars, registryVars>>

InitSpans ==
  /\ uris = <<FileA>>
  /\ buffer = (FileA :> [i \in 1..SpanLines |-> FooAndFoo])
  /\ \E cb \in 0..1, ca \in 0..1 : options = Options(FALSE, FALSE, cb, ca)
  /\ source = buffer
  /\ findTextInFiles = TRUE
  /\ unreadable = {}
  /\ useIncremental = FALSE
  /\ InitRest

NextSpans ==
  \/ HostReports
  \/ SearchReported
  \/ Format

SpecSpans == InitSpans /\ [][NextSpans]_vars

(***************************************************************************)
(* The incremental service with its suspension points.  A call of          *)
(* searchWorkspaceIncremental runs up to its last await (BeginSearch: the  *)
(* files are read) and resumes later (FinishSearch); the watchers deliver  *)
(* their events between two commands and while a call is suspended.  The   *)
(* command may be invoked again in the millisecond in which the document   *)
(* of the previous invocation was given its uri, or later.                 *)
(***************************************************************************)
\* clearCache() has run and searchWorkspace(options) is awaited; full is
\* what it computes from the files as they are now
BeganFull(full) ==
  /\ searchCache' = NoCache
  /\ pendingUpdates' = <<>>
  /\ inflight' = [NoCall EXCEPT !.kind = "full", !.full = full]

\* performIncrementalUpdate has cleared pendingUpdates and its loop over
\* filesToUpdate is at its last await: updated is what the loop computes
BeganUpdate(updated) ==
  /\ searchCache' = updated.cache
  /\ pendingUpdates' = <<>>
  /\ inflight' = [NoCall EXCEPT !.kind = "update", !.updated = updated,
                                !.filesToUpdate = pendingUpdates]

\* searchWorkspaceIncremental(options) up to its last suspension point
BeginSearch ==
  /\ pc = "start"
  /\ useIncremental
  /\ IF ~searchCache.set \/ ~isSameSearchOptions(options, searchCache.lastSearchOptions)
       THEN BeganFull(searchWorkspace(uris, heap, nextId, options, buffer, source,
                                      unreadable, findTextInFiles))
       ELSE BeganUpdate(UpdateFrom(pendingUpdates, 1,
                                   [result |-> EmptyResult, cache |-> searchCache,
                                    heap |-> heap, nextId |-> nextId],
                                   options, buffer, source, unreadable,
                                   findTextInFiles, {}))
  /\ pc' = "searching"
  /\ UNCHANGED <<buffer, disk, uris, source, options, heap, nextId, results, content,
                 mapping, validation, originalContent, changes, edits, message, token,
                 incremental, fileWatcher, invocations>>
  /\ UNCHANGED <<applyVars, hostVars, unitVars, registryVars>>

\* What the suspended call returns: initializeCache after the full search,
\* or the second loop of performIncrementalUpdate over the cache as it is now
Resumed(call) ==
  IF call.kind = "full" THEN NewSearch(call.full)
  ELSE SameSearch(UpdateLooped([call.updated EXCEPT !.cache = searchCache],
                               call.filesToUpdate))

\* The suspended call resumes and returns (setupFileWatchers after a full
\* search), then the command's cancellation check and empty-result check
FinishSearch ==
  /\ pc = "searching"
  /\ Settled([Resumed(inflight) EXCEPT !.pending = pendingUpdates])
  /\ fileWatcher' = (fileWatcher \/ (inflight.kind = "full" /\ inflight.full.threw = "none"))
  /\ inflight' = NoCall
  /\ UNCHANGED <<buffer, disk, uris, source, options, content, mapping, validation,
                 originalContent, changes, edits, token, invocations>>
  /\ UNCHANGED <<applyVars, hostVars, unitVars, registryVars>>

\* An event of the watchers can be delivered now: between two commands, or
\* while the suspended call still has an await to pass after it read file u
Deliverable(u) ==
  /\ fileWatcher
  /\ \/ pc \in {"tracking", "done"}
     \/ pc = "searching" /\ inflight.kind = "full" /\ u # uris[Len(uris)]
     \/ pc = "searching" /\ inflight.kind = "update" /\ Len(inflight.filesToUpdate) > 0

\* A file is written (its first line changes) and the watcher calls
\* handleFileChange
WatcherChange ==
  \E u \in DOMAIN buffer \ unreadable, l \in {0} :
    \E text \in {MatchLine(l), PlainLine(l)} :
      /\ Deliverable(u)
      /\ buffer[u][l + 1] # text
      /\ buffer' = [buffer EXCEPT ![u][l + 1] = text]
      /\ disk' = [disk EXCEPT ![u][l + 1] = text]
      /\ source' = [source EXCEPT ![u][l + 1] = text]
      /\ pendingUpdates' = handleFileChange(searchCache, pendingUpdates, u)
      /\ UNCHANGED <<uris, options, heap, nextId, results, content, mapping, validation,
                     originalContent, changes, edits, pc, message, token, searchCache,
                     incremental>>
      /\ UNCHANGED <<applyVars, hostVars, unitVars, runVars, registryVars>>

\* handleFileDelete: [cache, pending] after the watcher reported the deletion
handleFileDelete(cache, pending, uri) ==
  IF ~cache.set THEN [cache |-> cache, pending |-> pending]
  ELSE [cache |-> [cache EXCEPT !.excerptsByFile = MapDelete(@, UriToString(uri))],
        pending |-> SelectSeq(pending, LAMBDA key : key # UriToString(uri))]

\* A file is deleted (the host finds nothing in it any more and cannot open
\* it) and the watcher calls handleFileDelete
WatcherDelete ==
  \E u \in DOMAIN buffer \ unreadable :
    /\ Deliverable(u)
    /\ unreadable' = unreadable \cup {u}
    /\ source' = [source EXCEPT ![u] = <<>>]
    /\ searchCache' = handleFileDelete(searchCache, pendingUpdates, u).cache
    /\ pendingUpdates' = handleFileDelete(searchCache, pendingUpdates, u).pending
    /\ UNCHANGED <<buffer, disk, uris, options, heap, nextId, results, content, mapping,
                   validation, originalContent, changes, edits, pc, message, token,
                   incremental, findTextInFiles, useIncremental>>
    /\ UNCHANGED <<applyVars, unitVars, runVars, registryVars>>

\* The command is invoked again, with the same options or with the other
\* case sensitivity; Date.now() is what it was when the previous document got
\* its uri (elapsed = 0) or later
Reinvoke ==
  /\ pc \in {"tracking", "done"}
  /\ invocations < MaxSearches
  /\ \E same \in BOOLEAN, elapsed \in {0, 1} :
       /\ options' = IF same THEN options ELSE [options EXCEPT !.isCaseSensitive = ~@]
       /\ docUri' = docUri + elapsed
  /\ invocations' = invocations + 1
  /\ pc' = "start"
  /\ token' = FALSE
  /\ message' = NoMessage
  /\ UNCHANGED <<buffer, disk, uris, source, heap, nextId, results, content, mapping,
                 validation, originalContent, changes, edits, documents, changeTrackers,
                 openDocs, inflight, fileWatcher>>
  /\ UNCHANGED <<applyVars, hostVars, unitVars, cacheVars>>

\* Two files of two lines with one match each
InitConcurrent ==
  /\ uris = <<FileA, FileB>>
  /\ buffer = (FileA :> Doc(2, {0})) @@ (FileB :> Doc(2, {1}))
  /\ options = Options(FALSE, FALSE, 0, 0)
  /\ source = buffer
  /\ findTextInFiles \in BOOLEAN
  /\ unreadable = {}
  /\ useIncremental = TRUE
  /\ InitRest

NextConcurrent ==
  \/ BeginSearch
  \/ FinishSearch
  \/ Format
  \/ OpenDocument
  \/ Initialize
  \/ WatcherChange
  \/ WatcherDelete
  \/ Reinvoke

SpecConcurrent == InitConcurrent /\ [][NextConcurrent]_vars

(***************************************************************************)
(* The Excerpt constructor on its own: a caller passes a source range and  *)
(* context values for a file of some length.  The class of                 *)
(* src/models/excerpt.ts validates its arguments, the class of             *)
(* multi-buffer-search/src/models/excerpt.ts has an empty constructor      *)
(* body.  vscode.Position refuses a negative line, so no range starts      *)
(* below line 0; a context value that is not a non-negative integer is     *)
(* modelled by -1.                                                         *)
(***************************************************************************)
\* The arguments of the constructor call, as createExcerptsForFile passes them
Requested ==
  Excerpt(nextId, FileA, reported[1], PLACEHOLDER_RANGE, options.contextBefore,
          options.contextAfter, TRUE, GetText(buffer[FileA], reported[1]))

\* A caller chooses the source range
ExcerptRequested ==
  /\ pc = "start"
  /\ reported = <<>>
  /\ \E range \in Spans : reported' = <<range>>
  /\ UNCHANGED <<commandVars, applyVars, hostVars, registryVars, cacheVars, scan, runVars>>

\* new Excerpt(Excerpt.generateId(), ...) with the validating constructor
ConstructValidated ==
  /\ pc = "start"
  /\ Len(reported) = 1
  /\ IF ExcerptValid(Requested, buffer[FileA])
       THEN heap' = (nextId :> Requested) @@ heap /\ message' = message
       ELSE heap' = heap /\ message' = ErrorText("Excerpt construction failed")
  /\ nextId' = nextId + 1
  /\ pc' = "done"
  /\ UNCHANGED <<buffer, disk, uris, source, options, results, content, mapping, validation,
                 originalContent, changes, edits, token>>
  /\ UNCHANGED <<applyVars, hostVars, unitVars, runVars, registryVars, cacheVars>>

\* new Excerpt(Excerpt.generateId(), ...) with the empty constructor body
ConstructUnvalidated ==
  /\ pc = "start"
  /\ Len(reported) = 1
  /\ heap' = (nextId :> Requested) @@ heap
  /\ nextId' = nextId + 1
  /\ pc' = "done"
  /\ UNCHANGED <<buffer, disk, uris, source, options, results, content, mapping, validation,
                 originalContent, changes, edits, message, token>>
  /\ UNCHANGED <<applyVars, hostVars, unitVars, runVars, registryVars, cacheVars>>

\* A file of 1 to SpanLines lines; context values from -1 to 1
InitConstruct ==
  /\ uris = <<FileA>>
  /\ \E n \in 1..SpanLines : buffer = (FileA :> [i \in 1..n |-> FooAndFoo])
  /\ \E cb \in -1..1, ca \in -1..1 : options = Options(FALSE, FALSE, cb, ca)
  /\ source = buffer
  /\ findTextInFiles = FALSE
  /\ unreadable = {}
  /\ useIncremental = FALSE
  /\ InitRest

NextConstruct ==
  \/ ExcerptRequested
  \/ ConstructValidated
  \/ ConstructUnvalidated

SpecConstruct == InitConstruct /\ [][NextConstruct]_vars

(***************************************************************************)
(* The command run again and again with maxResults set: two files of two   *)
(* lines, each line with up to two occurrences of the query, searched by   *)
(* the plain service (host search or fallback) or by the incremental       *)
(* service.                                                                *)
(***************************************************************************)
MaxBudget == 2

InitBudget ==
  /\ uris = <<FileA, FileB>>
  /\ \E la \in 0..1, lb \in 0..1 :
       buffer = (FileA :> Doc(2, {la})) @@ (FileB :> Doc(2, {lb}))
  /\ \E budget \in 1..MaxBudget :
       options = [Options(FALSE, FALSE, 0, 0) EXCEPT
                    !.maxResults = [set |-> TRUE, value |-> budget]]
  /\ source = buffer
  /\ findTextInFiles \in BOOLEAN
  /\ unreadable = {}
  /\ useIncremental \in {FALSE, findTextInFiles}
  /\ InitRest

NextBudget ==
  \/ Search
  \/ Format
  \/ OpenDocument
  \/ Initialize
  \/ FileChange
  \/ NewCommand

SpecBudget == InitBudget /\ [][NextBudget]_vars

(***************************************************************************)
(* Reading the aggregate document back, for the properties below.          *)
(***************************************************************************)
DigitValue(c) == CHOOSE d \in 0..9 : Digit(d) = c

RECURSIVE ParseInt(_)
ParseInt(digits) ==
  IF Len(digits) = 0 THEN 0
  ELSE 10 * ParseInt(SubSeq(digits, 1, Len(digits) - 1)) + DigitValue(digits[Len(digits)])

\* The 0-based file line an aggregate line displays: the number in its
\* line-number column minus 1
ShownLine(lineText) == ParseInt(Trim(Substring2(lineText, 0, LINE_NUMBER_WIDTH))) - 1

\* The excerpt ids of the result, the ids of one file's excerpts
ResultIds == UNION {{results[f].excerpts[k] : k \in 1..Len(results[f].excerpts)}
                      : f \in 1..Len(results)}

\* The lines of a file on which the matcher finds the query
RawMatchLines(uri) ==
  LET ranges == findMatchesInDocument(source[uri], options, MAX_SAFE_INTEGER)
  IN {ranges[i].start.line : i \in 1..Len(ranges)}

\* The raw match lines merged into an excerpt
MatchLinesOf(id) ==
  {l \in RawMatchLines(heap[id].fileUri) :
     l >= heap[id].sourceRange.start.line /\ l <= heap[id].sourceRange.end.line}

\* The file lines an excerpt displays in the aggregate document
ShownLines(id) == {ShownLine(LineAt(content, l)) : l \in ExcerptLines(id)}

NoEdits == \A u \in DOMAIN edits : edits[u] = 0

Formatted == pc \in {"formatted", "validated", "opened", "tracking", "confirm"}

(***************************************************************************)
(* C1.  Every edit computeChanges reports targets the file line that the   *)
(* edited aggregate line displays (its line-number column minus 1), with   *)
(* the edited text as the new text.  Stated of the change set awaiting     *)
(* confirmation.                                                           *)
(***************************************************************************)
C1_EditTargetsShownLine ==
  pc = "confirm" =>
    \A multiLine \in ChangedLines(content, mapping, heap, originalContent) :
      \E i \in 1..Len(changes) :
        /\ changes[i].uri = heap[mapping.lineToExcerpt[multiLine]].fileUri
        /\ \E k \in 1..Len(changes[i].changes) :
             /\ changes[i].changes[k].range.start.line
                  = ShownLine(LineAt(content, multiLine))
             /\ changes[i].changes[k].newText
                  = extractContent(LineAt(content, multiLine))

(***************************************************************************)
(* C2.  After a replace operation and no user edit, once the apply command *)
(* has run to its end without a refusal or a host failure, every source    *)
(* line the replacement changes holds the replaced text behind its         *)
(* original leading whitespace.                                            *)
(***************************************************************************)
ReplacedLine(lineText) ==
  LeadingWhitespace(lineText) \o Trim(applyReplacement(lineText, options))

ApplyRanToEnd ==
  /\ pc = "done"
  /\ message.text \in {"No changes to apply", "Successfully applied changes"}

C2_ReplaceRewritesSource ==
  (options.isReplace /\ NoEdits /\ ApplyRanToEnd) =>
    \A u \in DOMAIN source : \A i \in 1..Len(source[u]) :
      applyReplacement(source[u][i], options) # source[u][i]
        => disk[u][i] = ReplacedLine(source[u][i])

(***************************************************************************)
(* C3.  Round trip: without replacement options and without user edits,    *)
(* computeChanges right after initialize finds no change: the change set   *)
(* has no entry and the apply command reports that nothing is to apply.    *)
(***************************************************************************)
C3_RoundTripEmpty ==
  (~options.isReplace /\ NoEdits) =>
    /\ pc = "tracking" =>
         /\ ~computeChangesThrows(content, mapping, heap, originalContent, buffer)
         /\ computeChanges(content, mapping, heap, originalContent, buffer) = <<>>
    /\ (pc = "done" /\ DOMAIN originalContent # {}) =>
         /\ changes = <<>>
         /\ message = Info("No changes to apply")

C3_Witness ==
  /\ ~options.isReplace
  /\ NoEdits
  /\ pc = "done"
  /\ message = Info("No changes to apply")
  /\ \E l \in DOMAIN originalContent :
       originalContent[l] # Substring(LineAt(content, l), CONTENT_START_INDEX)

(***************************************************************************)
(* C4.  The validator accepts every mapping the formatter built from a     *)
(* non-empty result: isValid is true and the error list is empty.          *)
(***************************************************************************)
C4_BuiltMappingValid ==
  (pc = "validated" /\ Len(results) > 0) =>
    /\ validation.isValid
    /\ validation.errors = {}

(***************************************************************************)
(* C5.  The excerpts of a file are ordered by ascending start line and the *)
(* line ranges they emit into the aggregate document (match plus context)  *)
(* are pairwise disjoint.                                                  *)
(***************************************************************************)
C5_ExcerptsDisjointOrdered ==
  Formatted =>
    \A f \in 1..Len(results) :
      \A j, k \in 1..Len(results[f].excerpts) :
        j < k =>
          LET first == getContextRange(heap[results[f].excerpts[j]], source[results[f].uri])
              second == getContextRange(heap[results[f].excerpts[k]], source[results[f].uri])
          IN /\ first.start.line < second.start.line
             /\ first.end.line < second.start.line
             /\ ShownLines(results[f].excerpts[j]) \cap ShownLines(results[f].excerpts[k]) = {}

(***************************************************************************)
(* C6.  An excerpt shows exactly the lines from its first merged match     *)
(* line minus contextBefore to its last merged match line plus             *)
(* contextAfter, clamped to the file.                                      *)
(***************************************************************************)
ExpectedShown(id) ==
  LET lines == MatchLinesOf(id)
      first == SetMin(lines)
      last == CHOOSE l \in lines : \A m \in lines : m <= l
      lineCount == LineCount(source[heap[id].fileUri])
  IN Max(0, first - heap[id].contextBefore) .. Min(lineCount - 1, last + heap[id].contextAfter)

C6_ExcerptShowsMatchPlusContext ==
  Formatted => \A id \in ResultIds : ShownLines(id) = ExpectedShown(id)

(***************************************************************************)
(* C7.  An excerpt's sourceRange is the match region before context        *)
(* expansion, and lineToExcerpt holds exactly the aggregate lines that     *)
(* display a line of a raw match: no context, header or separator line.    *)
(***************************************************************************)
C7_OnlyMatchLinesMapped ==
  Formatted =>
    /\ \A id \in ResultIds :
         /\ heap[id].sourceRange.start.line = SetMin(MatchLinesOf(id))
         /\ heap[id].sourceRange.end.line
              = CHOOSE l \in MatchLinesOf(id) : \A m \in MatchLinesOf(id) : m <= l
    /\ DOMAIN mapping.lineToExcerpt =
         UNION {{l \in ExcerptLines(id) :
                   ShownLine(LineAt(content, l)) \in RawMatchLines(heap[id].fileUri)}
                  : id \in ResultIds}

(***************************************************************************)
(* C8.  When applyChanges fails on opening, editing or saving one file,    *)
(* the changes of every other file of the change set are applied and       *)
(* saved all the same.                                                     *)
(***************************************************************************)
Committed(fileChange) ==
  \A k \in 1..Len(fileChange.changes) :
    LET line == fileChange.changes[k].range.start.line
    IN disk[fileChange.uri][line + 1]
         = LeadingWhitespace(source[fileChange.uri][line + 1]) \o fileChange.changes[k].newText

FilesOf(files) == {files[i] : i \in 1..Len(files)}

C8_OtherFilesStillCommitted ==
  (applyPc = "failed" /\ error.kind \in {"open", "prepare", "save"}) =>
    \A i \in 1..Len(changes) :
      changes[i].uri \notin FilesOf(error.files) => Committed(changes[i])

(***************************************************************************)
(* C9.  When applyChanges fails after a file has been saved, the failure   *)
(* shown to the user names the files that were committed and the files     *)
(* that failed.                                                            *)
(***************************************************************************)
C9_FailureNamesCommittedFiles ==
  (pc = "done" /\ message.kind = "error" /\ savedFiles # {}) =>
    /\ FilesOf(error.files) \subseteq FilesOf(message.files)
    /\ \A i \in 1..Len(changes) :
         UriToString(changes[i].uri) \in savedFiles
           => changes[i].uri \in FilesOf(message.files)

(***************************************************************************)
(* C10.  Once the cancellation has won the race against applyChanges, no   *)
(* file that is not yet saved is edited or saved.                          *)
(***************************************************************************)
C10_NothingTouchedAfterCancel ==
  [][cancelled =>
       \A u \in DOMAIN buffer :
         UriToString(u) \notin savedFiles => (buffer'[u] = buffer[u] /\ disk'[u] = disk[u])]_vars

(***************************************************************************)
(* C11.  If the cancellation of the search has been requested by the time  *)
(* the workspace scan completes, the command ends there: it registers no   *)
(* aggregate document in the provider and creates no change tracker, and   *)
(* nothing is registered once the command has ended.                       *)
(***************************************************************************)
C11_CancelledScanPublishesNothing ==
  [][/\ (token /\ pc = "start" /\ pc' # "start") =>
          /\ pc' = "done"
          /\ DOMAIN documents' \subseteq DOMAIN documents
          /\ DOMAIN changeTrackers' \subseteq DOMAIN changeTrackers
     /\ pc = "done" =>
          /\ DOMAIN documents' \subseteq DOMAIN documents
          /\ DOMAIN changeTrackers' \subseteq DOMAIN changeTrackers]_vars

C11_Witness ==
  /\ token
  /\ pc = "done"
  /\ Len(results) > 0
  /\ documents = <<>>
  /\ changeTrackers = <<>>

(***************************************************************************)
(* C12.  A malformed regular-expression query makes the whole search or    *)
(* replace operation fail with an error: once the command has gone past    *)
(* its search without being cancelled, the message it has shown is an      *)
(* error message, and no aggregate document has been registered.           *)
(***************************************************************************)
C12_MalformedPatternFailsFast ==
  (options.isRegex /\ ~RegExpValid(options.query) /\ pc # "start" /\ ~token) =>
    /\ message.kind = "error"
    /\ documents = <<>>

(***************************************************************************)
(* The search step of the command, for the properties below.               *)
(***************************************************************************)
\* The command leaves its search, not cancelled, with a pattern that compiles
SearchSettles == pc = "start" /\ pc' # "start" /\ ~token /\ ~findMatchesThrows(options)

\* The text of each file the search reads its matches from
Searched == IF findTextInFiles /\ ~findTextInFilesRejects(options) THEN source ELSE buffer

MatchesIn(u) == findMatchesInDocument(Searched[u], options, MAX_SAFE_INTEGER)

\* The files in which the search finds a match
MatchingFiles == {u \in DOMAIN buffer : Len(MatchesIn(u)) > 0}

\* The Excerpt constructor throws for a match of file u
ConstructionFails(u) ==
  /\ u \in MatchingFiles \ unreadable
  /\ FirstInvalid(createExcerptsForFile(u, MatchesIn(u), options.contextBefore,
                                        options.contextAfter, buffer[u], 1),
                  buffer[u]) > 0

\* The files a result has an entry for
ResultFiles(res) == {res[k].uri : k \in 1..Len(res)}

(***************************************************************************)
(* C13.  If a file cannot be read during a workspace search, in the host   *)
(* search path or in the fallback path, that file is skipped: the search   *)
(* returns the excerpts of every other matching file.                      *)
(***************************************************************************)
C13_UnreadableFileSkipped ==
  [][(SearchSettles /\ unreadable # {} /\ \A u \in DOMAIN buffer : ~ConstructionFails(u)) =>
       ResultFiles(results') = MatchingFiles \ unreadable]_vars

(***************************************************************************)
(* C14.  If the construction of an excerpt fails for one file during a     *)
(* search, the result has no entry for that file, it has the excerpts of   *)
(* every other matching file, and the condition is reported to the user.   *)
(***************************************************************************)
C14_ConstructionFailureOmitsFile ==
  [][(SearchSettles /\ unreadable = {} /\ \E u \in DOMAIN buffer : ConstructionFails(u)) =>
       /\ ResultFiles(results') = {u \in MatchingFiles : ~ConstructionFails(u)}
       /\ message'.kind \in {"warning", "error"}]_vars

(***************************************************************************)
(* C16.  Once the close event of an aggregate document has been handled,   *)
(* the registry holds neither that document nor a change tracker for its   *)
(* identity, wherever the close event falls among the steps of the command *)
(* (addDocument, open, show, setChangeTracker).                            *)
(***************************************************************************)
C16_ClosedDocumentLeavesRegistry ==
  [][\A d \in openDocs \ openDocs' :
       d \notin DOMAIN documents' /\ d \notin DOMAIN changeTrackers']_vars

(***************************************************************************)
(* C20.  Idempotence: after applyChanges has committed a computed change   *)
(* set, computing the changes again for the same aggregate document        *)
(* against the updated source files yields an empty change set.            *)
(***************************************************************************)
C20_RecomputeAfterApplyIsEmpty ==
  applyPc = "resolved" =>
    /\ ~computeChangesThrows(content, mapping, heap, originalContent, buffer)
    /\ computeChanges(content, mapping, heap, originalContent, buffer) = <<>>

(***************************************************************************)
(* The search step of the command with the incremental service, for the    *)
(* properties below.                                                       *)
(***************************************************************************)
\* The files, the excerpt ids and the entries of a result map
EntryFiles(entries) == {entries[k].uri : k \in 1..Len(entries)}

EntryIds(entries) ==
  UNION {{entries[f].excerpts[k] : k \in 1..Len(entries[f].excerpts)} : f \in 1..Len(entries)}

Entries(entries) == {entries[k] : k \in 1..Len(entries)}

\* Two searches agree in every option the result depends on
SameResultOptions(a, b) ==
  /\ a.query = b.query
  /\ a.isRegex = b.isRegex
  /\ a.isCaseSensitive = b.isCaseSensitive
  /\ a.matchWholeWord = b.matchWholeWord
  /\ a.includePattern = b.includePattern
  /\ a.excludePattern = b.excludePattern
  /\ a.contextBefore = b.contextBefore
  /\ a.contextAfter = b.contextAfter
  /\ a.maxResults = b.maxResults

\* searchWorkspaceIncremental settles, the service holding a cache
IncrementalSearchSettles == pc = "start" /\ pc' # "start" /\ useIncremental /\ searchCache.set

(***************************************************************************)
(* C15.  Two aggregate documents never share mapping state: no step, the   *)
(* building of a later aggregate document included, changes the aggregate  *)
(* range of an excerpt of the mapping of a registered document.            *)
(***************************************************************************)
C15_DocumentsShareNoMappingState ==
  [][\A d \in DOMAIN documents :
       \A id \in DOMAIN documents[d].mapping.excerpts :
         heap'[id].multiBufferRange = heap[id].multiBufferRange]_vars

(***************************************************************************)
(* C17.  When the options of the new search differ from the options of the *)
(* cached search in an option the result depends on (context line counts   *)
(* and maxResults included), searchWorkspaceIncremental rescans: the cache *)
(* is rebuilt for the new options and every excerpt it returns was built   *)
(* by this search, none is served from the cache.                          *)
(***************************************************************************)
C17_DifferentOptionsRescan ==
  [][(IncrementalSearchSettles /\ ~SameResultOptions(options, searchCache.lastSearchOptions)) =>
       /\ searchCache'.lastSearchOptions = options
       /\ \A id \in EntryIds(incremental'.all) : id >= nextId]_vars

(***************************************************************************)
(* C18.  In an incremental query a re-scanned file that was cached is      *)
(* reported as modified only if the hash of its new excerpts differs from  *)
(* the cached hash; an added file was not cached, a removed file was.      *)
(***************************************************************************)
C18_ModifiedOnlyIfHashDiffers ==
  [][(IncrementalSearchSettles /\ SameResultOptions(options, searchCache.lastSearchOptions)) =>
       /\ \A e \in Entries(incremental'.modified) :
            /\ MapHas(searchCache.excerptsByFile, UriToString(e.uri))
            /\ computeFileHash(e.excerpts, heap')
                 # MapGet(searchCache.excerptsByFile, UriToString(e.uri)).fileHash
       /\ \A e \in Entries(incremental'.added) :
            ~MapHas(searchCache.excerptsByFile, UriToString(e.uri))
       /\ \A k \in 1..Len(incremental'.removed) :
            MapHas(searchCache.excerptsByFile, UriToString(incremental'.removed[k]))]_vars

(***************************************************************************)
(* C19.  In an incremental query every cached file that is not re-matched  *)
(* (not reported as added, modified or removed; a pending file skipped for *)
(* its size included) is reported as unchanged and appears in `all`, with  *)
(* its cached excerpts.                                                    *)
(***************************************************************************)
C19_NotRematchedIsUnchanged ==
  [][(IncrementalSearchSettles /\ SameResultOptions(options, searchCache.lastSearchOptions)) =>
       \A k \in 1..Len(searchCache.excerptsByFile) :
         LET cached == searchCache.excerptsByFile[k]
             entry == [uri |-> UriParse(cached.key), excerpts |-> cached.excerpts]
         IN entry.uri \notin (EntryFiles(incremental'.added)
                                \cup EntryFiles(incremental'.modified)
                                \cup {incremental'.removed[j] :
                                        j \in 1..Len(incremental'.removed)}) =>
              /\ entry \in Entries(incremental'.unchanged)
              /\ entry \in Entries(incremental'.all)]_vars

(***************************************************************************)
(* C21.  In a replace operation with a literal (non-regex) query that is   *)
(* not case-sensitive, every line of the aggregate document that shows a   *)
(* replaced source line shows that line with every case-insensitive        *)
(* occurrence of the query replaced by the replacement string exactly as   *)
(* given, character for character.                                         *)
(***************************************************************************)
\* The source line with every case-insensitive occurrence of the query
\* replaced by the replacement string as it is
ReplacedVerbatim(lineText) ==
  ReplaceFrom(lineText, ToLowerCase(lineText), ToLowerCase(options.query),
              options.replacement, 0)

\* The source line an aggregate line of an excerpt displays
SourceLineShown(l) ==
  LineAt(buffer[heap[mapping.lineToExcerpt[l]].fileUri], ShownLine(LineAt(content, l)))

C21_ReplacementInsertedVerbatim ==
  (Formatted /\ options.isReplace /\ ~options.isRegex /\ ~options.isCaseSensitive) =>
    \A l \in DOMAIN mapping.lineToExcerpt :
      Substring(LineAt(content, l), CONTENT_START_INDEX)
        = ReplacedVerbatim(SourceLineShown(l))

(***************************************************************************)
(* C22.  In a replace operation (with a replacement string that holds no   *)
(* '$'), every line of the aggregate document that shows a replaced source *)
(* line shows that line with exactly the spans replaced that the matcher   *)
(* reports on it under the same options (literal or regex, case,           *)
(* whole word), and the rest of the line unchanged.                        *)
(***************************************************************************)
\* The text with the spans ranges[k..] of one line replaced, from index idx on
RECURSIVE ReplaceSpans(_, _, _, _)
ReplaceSpans(text, ranges, k, idx) ==
  IF k > Len(ranges) THEN Substring(text, idx)
  ELSE Substring2(text, idx, ranges[k].start.character) \o options.replacement
       \o ReplaceSpans(text, ranges, k + 1, ranges[k].end.character)

\* The spans the matcher reports on one line
MatcherSpans(lineText) == findMatchesInDocument(<<lineText>>, options, MAX_SAFE_INTEGER)

C22_ReplacesWhatTheMatcherReports ==
  (Formatted /\ options.isReplace /\ Count(options.replacement, "$") = 0) =>
    \A l \in DOMAIN mapping.lineToExcerpt :
      Substring(LineAt(content, l), CONTENT_START_INDEX)
        = ReplaceSpans(SourceLineShown(l), MatcherSpans(SourceLineShown(l)), 1, 0)

(***************************************************************************)
(* C23.  With matchWholeWord set, in literal mode and in regex mode, every *)
(* span the search produces for a file has a non-word character or the     *)
(* edge of the line right before it and right after it; the query 'cat'    *)
(* on the line 'concatenate cat category' gives exactly one span.          *)
(***************************************************************************)
\* The spans the search that has settled took for a file: those the host
\* reported, or those of the fallback matcher
ProducedSpans(u) ==
  IF findTextInFiles /\ ~findTextInFilesRejects(options)
    THEN HostMatches(u, options, source, MAX_SAFE_INTEGER)
    ELSE findMatchesInDocument(buffer[u], options, MAX_SAFE_INTEGER)

WholeWordSpan(u, span) ==
  isWordBoundary(LineAt(Searched[u], span.start.line), span.start.character,
                 span.end.character - span.start.character)

C23_WholeWordSpansAtBoundaries ==
  (pc = "searched" /\ options.matchWholeWord) =>
    \A u \in DOMAIN buffer :
      /\ \A k \in 1..Len(ProducedSpans(u)) : WholeWordSpan(u, ProducedSpans(u)[k])
      /\ (options.query = Cat /\ LineAt(Searched[u], 0) = Concatenate)
           => Len(ProducedSpans(u)) = 1

(***************************************************************************)
(* C25.  For every emitted line, whatever the number of the source line,   *)
(* the editable content starts at the fixed column the ChangeTracker       *)
(* assumes, and extractContent of the emitted line is the trimmed rendered *)
(* text.  Stated of the rendered text of every line of the aggregate       *)
(* document, emitted at each of the source line numbers of LineNumbers.    *)
(***************************************************************************)
\* 0-based source line numbers: the first, and the last ones with a number
\* of 5, 6 and 7 digits
LineNumbers == {0, 99998, 999998, 999999}

\* The lines of the aggregate document the formatter emitted for excerpts
EmittedLines ==
  UNION {heap[id].multiBufferRange.start.line..heap[id].multiBufferRange.end.line
           : id \in ResultIds}

C25_ContentStartsAtFixedColumn ==
  Formatted =>
    \A l \in EmittedLines : \A lineNum \in LineNumbers :
      LET rendered == Substring(LineAt(content, l), CONTENT_START_INDEX)
          emitted == formatLine(lineNum, MATCH_LINE_PREFIX, rendered)
      IN /\ Substring(emitted, CONTENT_START_INDEX) = rendered
         /\ extractContent(emitted) = Trim(rendered)

(***************************************************************************)
(* C26.  For every edit computeChanges produces, the source line it        *)
(* derives is a line of the source file (0 <= sourceLine < lineCount), so  *)
(* that computeChanges never fails on a line lookup.  Stated of the edited *)
(* aggregate document on which the apply command may be run.               *)
(***************************************************************************)
C26_SourceLineInFile ==
  pc = "tracking" =>
    \A multiLine \in ChangedLines(content, mapping, heap, originalContent) :
      LET excerpt == heap[mapping.lineToExcerpt[multiLine]]
          sourceLine == SourceLine(multiLine, excerpt)
      IN /\ 0 <= sourceLine
         /\ sourceLine < LineCount(buffer[excerpt.fileUri])

(***************************************************************************)
(* C24.  findMatchesInDocument terminates for every document and every     *)
(* query, literal and regex queries that match the empty string and an     *)
(* unset maxResults included: every pass of the loop over a line changes   *)
(* the state of the loop, and every match found on a line lies at least    *)
(* one character after the match found before it.                          *)
(***************************************************************************)
C24_ScanAdvances ==
  scan.pc = "while" =>
    LET next == WhileStep(scan, buffer[FileA], options, Remaining(options))
    IN /\ next # scan
       /\ (next.pc = "while" /\ scan.last # -1) => next.last > scan.last

(***************************************************************************)
(* C27.  Every match range reported for a file, single-line or multi-line, *)
(* lies entirely within the line range of exactly one of the excerpts      *)
(* built for that file, for every list of ranges sorted by start line.     *)
(***************************************************************************)
\* The excerpts of the result whose line range holds the range
ExcerptsHolding(range) ==
  {id \in ResultIds : /\ heap[id].sourceRange.start.line <= range.start.line
                      /\ range.end.line <= heap[id].sourceRange.end.line}

C27_EachSpanInOneExcerpt ==
  (pc = "searched" /\ reported # <<>>) =>
    \A k \in 1..Len(reported) : Cardinality(ExcerptsHolding(reported[k])) = 1

(***************************************************************************)
(* C28.  A file-change notification is never lost: when a change of file F *)
(* is delivered while the watchers of the incremental service are active,  *)
(* a full rescan in progress included, F is pending afterwards, so that    *)
(* the next query re-matches it before its cached excerpts are served; a   *)
(* rescan in progress has read F before the change.                        *)
(***************************************************************************)
IsPending(pending, u) == \E k \in 1..Len(pending) : pending[k] = UriToString(u)

C28_ChangeNotificationKept ==
  [][\A u \in DOMAIN buffer :
       (fileWatcher /\ buffer'[u] # buffer[u]) => IsPending(pendingUpdates', u)]_vars

(***************************************************************************)
(* C29.  While an incremental scan is in progress (performIncrementalUpdate *)
(* is suspended at one of its awaits), no handler of the watchers modifies *)
(* the per-file cache.                                                     *)
(***************************************************************************)
C29_NoHandlerTouchesCacheMidScan ==
  [][(pc = "searching" /\ pc' = "searching" /\ inflight.kind = "update") =>
       searchCache'.excerptsByFile = searchCache.excerptsByFile]_vars

(***************************************************************************)
(* C30.  Every invocation that publishes an aggregate document registers   *)
(* it under an identity no registered document has: addDocument never      *)
(* replaces an entry of the registry.                                      *)
(***************************************************************************)
C30_FreshDocumentIdentity ==
  [][(pc = "searched" /\ pc' = "formatted") => docUri \notin DOMAIN documents]_vars

(***************************************************************************)
(* C31.  Whenever the apply command has reported 'Changes cancelled. No    *)
(* files were modified.', every source document and every file on disk     *)
(* holds the text it held when the command started: the apply operation    *)
(* has modified or saved nothing by then and modifies nothing afterwards.  *)
(***************************************************************************)
CancelledReported == message = Warning("Changes cancelled. No files were modified.")

C31_CancelledMeansUnmodified ==
  CancelledReported => (buffer = source /\ disk = source)

(***************************************************************************)
(* C32.  After formatSearchResults, mapping.excerpts holds exactly the     *)
(* input excerpts under their ids, excerptsByFile holds under the key of   *)
(* every input file exactly the excerpts of that file in input order, and  *)
(* every excerpt lineToExcerpt refers to is in mapping.excerpts: no        *)
(* excerpt is orphaned and none is unreferenced.                           *)
(***************************************************************************)
InputKeys == {UriToString(results[f].uri) : f \in 1..Len(results)}

InputOf(fileKey) == results[CHOOSE f \in 1..Len(results) : UriToString(results[f].uri) = fileKey]

Apart(a, b) ==
  \/ heap[a].multiBufferRange.end.line + 1 < heap[b].multiBufferRange.start.line
  \/ heap[b].multiBufferRange.end.line + 1 < heap[a].multiBufferRange.start.line

C33_AggregateRangesApart ==
  Formatted =>
    /\ \A l \in DOMAIN mapping.lineToExcerpt :
         /\ l \in 0..(Len(content) - 1)
         /\ l \in ExcerptLines(mapping.lineToExcerpt[l])
    /\ \A id \in ResultIds : ExcerptLines(id) \subseteq 0..(Len(content) - 1)
    /\ \A a, b \in ResultIds : a # b => Apart(a, b)

C33_Witness ==
  /\ Formatted
  /\ Cardinality(ResultIds) = 2
  /\ \E id \in ResultIds : Cardinality(ExcerptLines(id)) > 1
  /\ \A id \in ResultIds : \E l \in DOMAIN mapping.lineToExcerpt : mapping.lineToExcerpt[l] = id

(***************************************************************************)
(* C34.  The apply command starts applyChanges only from the confirmation  *)
(* prompt of a non-empty change set, and a source document or a file on    *)
(* disk changes only while applyChanges runs; when no tracked line of the  *)
(* aggregate document differs from its baseline, the change set is empty,  *)
(* 'No changes to apply' is reported and applyChanges is not started.      *)
(***************************************************************************)
NoLineDiffers ==
  /\ docUri \in DOMAIN documents
  /\ docUri \in DOMAIN changeTrackers
  /\ \A l \in DOMAIN documents[docUri].mapping.lineToExcerpt \cap DOMAIN changeTrackers[docUri] :
       extractContent(LineAt(content, l)) = changeTrackers[docUri][l]

ApplyCommandRuns == pc = "tracking" /\ pc' # "tracking"

C34_AppliesOnlyConfirmedChanges ==
  [][/\ (applyPc = "idle" /\ applyPc' # "idle") => (pc = "confirm" /\ Len(changes) > 0)
     /\ (buffer' # buffer \/ disk' # disk) => (applyPc # "idle" /\ Len(changes) > 0)
     /\ (ApplyCommandRuns /\ NoLineDiffers) =>
          /\ changes' = <<>>
          /\ message' = Info("No changes to apply")
          /\ pc' = "done"
          /\ applyPc' = "idle"]_vars

C34_Witness ==
  /\ pc = "done"
  /\ message = Info("No changes to apply")
  /\ applyPc = "idle"
  /\ NoLineDiffers
  /\ DOMAIN changeTrackers[docUri] # {}
  /\ buffer = source

(***************************************************************************)
(* C35.  Every excerpt that exists was constructed with a sourceRange      *)
(* within the line bounds of its file and with contextBefore and           *)
(* contextAfter that are non-negative integers: a constructor call with    *)
(* other arguments fails and leaves no excerpt.                            *)
(***************************************************************************)
WithinBounds(e) ==
  /\ e.sourceRange.start.line >= 0
  /\ e.sourceRange.end.line < LineCount(buffer[e.fileUri])
  /\ e.contextBefore >= 0
  /\ e.contextAfter >= 0

C35_ExcerptsWithinBounds == \A id \in DOMAIN heap : WithinBounds(heap[id])

(***************************************************************************)
(* C36.  In every IncrementalSearchResult the files of added, modified,    *)
(* removed and unchanged are pairwise disjoint, no file appears twice in   *)
(* one of them, `all` holds exactly the entries of added, modified and     *)
(* unchanged, and no removed file appears in `all`.                        *)
(***************************************************************************)
RemovedFiles(result) == {result.removed[k] : k \in 1..Len(result.removed)}

OncePerFile(entries) ==
  \A j, k \in 1..Len(entries) : entries[j].uri = entries[k].uri => j = k

C36_ResultSetsPartition ==
  /\ EntryFiles(incremental.added) \cap EntryFiles(incremental.modified) = {}
  /\ EntryFiles(incremental.added) \cap EntryFiles(incremental.unchanged) = {}
  /\ EntryFiles(incremental.modified) \cap EntryFiles(incremental.unchanged) = {}
  /\ RemovedFiles(incremental) \cap EntryFiles(incremental.all) = {}
  /\ Cardinality(RemovedFiles(incremental)) = Len(incremental.removed)
  /\ OncePerFile(incremental.all)
  /\ Entries(incremental.all) = Entries(incremental.added) \cup Entries(incremental.modified)
                                  \cup Entries(incremental.unchanged)

C36_Witness ==
  /\ Len(incremental.modified) > 0
  /\ Len(incremental.unchanged) > 0
  /\ Len(incremental.all) = 2
  /\ pc = "searched"

(***************************************************************************)
(* C37.  With maxResults set, the match spans one workspace search         *)
(* collects over all the files it scans never number more than maxResults: *)
(* the budget is global, in searchWorkspace (host search and fallback) and *)
(* in an update of the incremental service, which scans the pending files. *)
(***************************************************************************)
RECURSIVE SpansOfEntries(_, _)
SpansOfEntries(entries, k) ==
  IF k > Len(entries) THEN 0
  ELSE Len(HostMatches(entries[k].uri, options, source, Remaining(options)))
         + SpansOfEntries(entries, k + 1)

\* The spans collected by the search of this step
SpansCollected ==
  IF useIncremental /\ searchCache.set
       /\ isSameSearchOptions(options, searchCache.lastSearchOptions)
    THEN SpansOfEntries(incremental'.added \o incremental'.modified, 1)
    ELSE searchWorkspace(uris, heap, nextId, options, buffer, source, unreadable,
                         findTextInFiles).globalCount

C37_GlobalBudget ==
  [][(pc = "start" /\ pc' # "start" /\ options.maxResults.set) =>
       SpansCollected <= options.maxResults.value]_vars

(***************************************************************************)
(* C38.  Whatever the match position and the context values, the range of  *)
(* an excerpt and the file lines the excerpt shows lie between line 0 and  *)
(* the last line of the file: context before a match on the first line     *)
(* and context after a match on the last line is cut at the file's ends.   *)
(***************************************************************************)
LastLine(uri) == LineCount(buffer[uri]) - 1

C38_ContextClampedToFile ==
  Formatted =>
    \A id \in ResultIds :
      /\ heap[id].sourceRange.start.line >= 0
      /\ heap[id].sourceRange.end.line <= LastLine(heap[id].fileUri)
      /\ \A l \in ShownLines(id) : l >= 0 /\ l <= LastLine(heap[id].fileUri)

C38_Witness ==
  /\ Formatted
  /\ options.contextBefore = MaxContext
  /\ options.contextAfter = MaxContext
  /\ RawMatchLines(FileA) = {0, LastLine(FileA)}
  /\ \E id \in ResultIds : 0 \in ShownLines(id) /\ LastLine(FileA) \notin ShownLines(id)
  /\ \E id \in ResultIds : LastLine(FileA) \in ShownLines(id) /\ 0 \notin ShownLines(id)

(***************************************************************************)
(* C39.  In literal mode the matcher produces one span for every           *)
(* left-to-right non-overlapping occurrence of the query in the line: an   *)
(* occurrence is a stretch of the line equal to the query, letter case     *)
(* ignored when isCaseSensitive is false and exact when it is true.        *)
(***************************************************************************)
SameText(a, b, isCaseSensitive) ==
  /\ Len(a) = Len(b)
  /\ \A k \in 1..Len(a) : IF isCaseSensitive THEN a[k] = b[k]
                          ELSE LowerChar(a[k]) = LowerChar(b[k])

RECURSIVE Occurrences(_, _, _, _)
Occurrences(text, query, isCaseSensitive, from) ==
  LET hits == {i \in from..(Len(text) - Len(query)) :
                 SameText(SubSeq(text, i + 1, i + Len(query)), query, isCaseSensitive)}
  IN IF hits = {} THEN <<>>
     ELSE <<SetMin(hits)>> \o Occurrences(text, query, isCaseSensitive,
                                         SetMin(hits) + Len(query))

ExpectedSpans(text, query, isCaseSensitive) ==
  LET found == Occurrences(text, query, isCaseSensitive, 0)
  IN [k \in 1..Len(found) |-> Range(0, found[k], 0, found[k] + Len(query))]

C39_LiteralSpans ==
  scan.pc = "done" =>
    scan.ranges = ExpectedSpans(buffer[FileA][1], options.query, options.isCaseSensitive)

(***************************************************************************)
(* C40.  The result of a search lists the files in the order in which the  *)
(* enumeration returned them and, within a file, the excerpts by ascending *)
(* source line, and the aggregate document shows the excerpts in that      *)
(* order; for searchWorkspace and for every result of                      *)
(* searchWorkspaceIncremental.                                             *)
(***************************************************************************)
EnumerationIndex(uri) == CHOOSE i \in 1..Len(uris) : uris[i] = uri

InEnumerationOrder(entries) ==
  \A j, k \in 1..Len(entries) :
    j < k => EnumerationIndex(entries[j].uri) < EnumerationIndex(entries[k].uri)

AscendingSourceLines(excerpts) ==
  \A j, k \in 1..Len(excerpts) :
    j < k => heap[excerpts[j]].sourceRange.start.line < heap[excerpts[k]].sourceRange.start.line

\* Excerpt a comes before excerpt b in the result
ComesBefore(a, b) ==
  \E f, g \in 1..Len(results) :
    \E j \in 1..Len(results[f].excerpts), k \in 1..Len(results[g].excerpts) :
      /\ results[f].excerpts[j] = a
      /\ results[g].excerpts[k] = b
      /\ f < g \/ (f = g /\ j < k)

C40_OrderPreserved ==
  /\ (pc = "searched" \/ Formatted) =>
       /\ InEnumerationOrder(results)
       /\ \A f \in 1..Len(results) : AscendingSourceLines(results[f].excerpts)
  /\ Formatted =>
       \A a, b \in ResultIds :
         ComesBefore(a, b) =>
           heap[a].multiBufferRange.end.line < heap[b].multiBufferRange.start.line

====
